---- MODULE Spec2Model ----
(***************************************************************************)
(* A model of the fish-agent serving layer: the model cache                *)
(* (custom/utils/models.py), the rate limiter and authentication           *)
(* (custom/utils/auth.py), the agent chat service (custom/api/agent.py),   *)
(* the engine-bound job handler (agent_server/handler.py) and the job      *)
(* dispatcher (custom/handler.py).                                         *)
(***************************************************************************)
EXTENDS Integers, Sequences, FiniteSets, TLC

\* ------------------------------------------------------------------------
\* Bounds of the model
\* ------------------------------------------------------------------------
\* number of concurrent callers of ModelManager.get_model
NThreads == 2
\* largest configured MODEL_CACHE_SIZE explored
MaxCap == 2
\* largest value of the wall clock read by ModelManager.get_model
MaxClock == 1
\* number of rate-limit windows the wall clock runs through
MaxWindows == 1
\* number of chat rounds (user message and reply) stored in one run
MaxRounds == 6
\* longest request list given to batch_chat
MaxBatch == 2
MaxTokens == 2
MaxChunks == 2
MaxItems == 3
\* largest number of http.response.body messages of one response
MaxBodyMessages == 3
\* largest number of concurrent chat calls that are let in
MaxCalls == 4
\* largest number of attempts to construct the end-to-end agent
MaxConstructions == 3
\* largest number of text segments the end-to-end agent streams
MaxSegments == 2

\* ------------------------------------------------------------------------
\* ModelManager (custom/utils/models.py)
\* ------------------------------------------------------------------------
FishSpeech == "fish-speech"
FishAgent == "fish-agent"
\* a name _load_model does not know: it raises ValueError
UnknownModel == "other"
ModelNames == {FishSpeech, FishAgent, UnknownModel}
Loadable == {FishSpeech, FishAgent}

Threads == 1..NThreads
NoLock == <<"none", 0>>
NoName == "-"

VARIABLES
    max_cache_size,   \* ModelManager.max_cache_size
    models,           \* ModelManager.models: the set of cached names
    last_used,        \* ModelManager.last_used: dict in insertion order, seq of [name, ts]
    locks,            \* ModelManager.locks: name -> lock object (or NoLock when absent)
    held,             \* the lock objects currently held
    clock,            \* time.time() as read by get_model
    pc,               \* each caller's position in get_model / _cleanup_cache
    model_name,       \* each caller's argument
    mylock,           \* the lock object a caller took at line 31
    lru_model,        \* the name a caller selected at line 101
    evlock,           \* the lock object a caller took at line 105
    outcome,          \* how the get_model call that ended last ended
    loads,            \* per name: successful loader runs so far (saturating at 2)
    ret,              \* the call made last by the single caller, and what it returned
    requests,         \* RateLimiter.requests: api key -> list of admission times
    admitted,         \* per api key: the times of the calls admitted in the last 60 s
    tier_admitted,    \* the same, per api key and tier the call was made under
    rejected,         \* per api key: the calls rejected since its last admitted call (saturating at 2)
    conversations,    \* AgentChat.conversations: conversation id -> list of messages
    engine_conversations, \* agent_server RunPodHandler.conversations
    chat_log,         \* per id: every message AgentChat appended, in append order
    engine_log,       \* per id: every message the engine-bound handler appended
    voices,           \* Voice.voices: voice id -> profile
    meta_files,       \* the <id>.json files of the voices directory: id -> content
    emb_files,        \* the ids whose <id>.pt exists in the voices directory
    AGENT,            \* runpod/handler.py _AGENT: the singleton, or NoAgent
    constructions,    \* how often FishE2EAgent() was attempted, and how it went
    chat_pc,          \* each concurrent chat call's position in AgentChat.chat
    chat_conv,        \* the list object its local variable conversation refers to
    heap,             \* the list objects of the conversation histories, by identity
    conv_obj,         \* AgentChat.conversations by identity: id -> list object
    autocast_enabled, \* torch's autocast state of the running thread
    scope             \* where the caller of autocast_exclude_mps is

mmVars == <<max_cache_size, models, last_used, locks, held, clock, pc, model_name,
            mylock, lru_model, evlock, outcome, loads>>
cacheVars == <<max_cache_size, models, last_used, locks, clock>>
threadVars == <<held, pc, model_name, mylock, lru_model, evlock, outcome, loads>>
\* what the concurrent callers of get_model leave alone
rateVars == <<requests, admitted, tier_admitted, rejected>>
chatVars == <<conversations, engine_conversations, chat_log, engine_log>>
voiceVars == <<voices, meta_files, emb_files>>
e2eVars == <<AGENT, constructions>>
callVars == <<chat_pc, chat_conv, heap, conv_obj>>
scopeVars == <<autocast_enabled, scope>>
restVars == <<e2eVars, callVars, scopeVars>>
notThreads == <<ret, rateVars, chatVars, voiceVars, restVars>>

\* dict helpers for last_used (a Python dict keeps insertion order)
LuKeys(lu) == {lu[i].name : i \in 1..Len(lu)}
LuIndex(lu, n) == CHOOSE i \in 1..Len(lu) : lu[i].name = n
LuGet(lu, n) == lu[LuIndex(lu, n)].ts
LuSet(lu, n, t) ==
    IF n \in LuKeys(lu)
    THEN [lu EXCEPT ![LuIndex(lu, n)] = [name |-> n, ts |-> t]]
    ELSE Append(lu, [name |-> n, ts |-> t])
LuDel(lu, n) ==
    LET i == LuIndex(lu, n)
    IN  [j \in 1..(Len(lu) - 1) |-> IF j < i THEN lu[j] ELSE lu[j + 1]]

\* min(self.last_used.items(), key=lambda x: x[1])[0]: the first entry, in
\* iteration order, among those with the smallest timestamp
\* (a variant that removes the entry inserted first, whatever its timestamp)
LruFirstInserted(lu) == lu[1].name
LruOf(lu) ==
    LET i == CHOOSE k \in 1..Len(lu) :
                 /\ \A j \in 1..Len(lu) : lu[k].ts <= lu[j].ts
                 /\ \A j \in 1..(k - 1) : lu[j].ts > lu[k].ts
    IN  lu[i].name

\* len(self.models) >= self.max_cache_size
CacheFull(ms, cap) == Cardinality(ms) >= cap

Bump(n) == IF n < 2 THEN n + 1 ELSE 2

MMInit ==
    /\ max_cache_size \in 1..MaxCap
    /\ models = {}
    /\ last_used = <<>>
    /\ locks = [n \in ModelNames |-> NoLock]
    /\ held = {}
    /\ clock = 0
    /\ pc = [t \in Threads |-> "idle"]
    /\ model_name = [t \in Threads |-> NoName]
    /\ mylock = [t \in Threads |-> NoLock]
    /\ lru_model = [t \in Threads |-> NoName]
    /\ evlock = [t \in Threads |-> NoLock]
    /\ outcome = "none"
    /\ loads = [n \in Loadable |-> 0]

\* the call of thread t ends with result r: every lock it holds is released by
\* the with blocks it leaves, and its locals are gone
Leave(t, r) ==
    /\ pc' = [pc EXCEPT ![t] = "idle"]
    /\ held' = held \ {mylock[t], evlock[t]}
    /\ outcome' = r
    /\ model_name' = [model_name EXCEPT ![t] = NoName]
    /\ mylock' = [mylock EXCEPT ![t] = NoLock]
    /\ lru_model' = [lru_model EXCEPT ![t] = NoName]
    /\ evlock' = [evlock EXCEPT ![t] = NoLock]

\* thread t moves on to position p
Goto(t, p) == pc' = [pc EXCEPT ![t] = p]

\* a caller enters get_model(n)
Call(t, n) ==
    /\ pc[t] = "idle"
    /\ Goto(t, "check_lock")
    /\ model_name' = [model_name EXCEPT ![t] = n]
    /\ UNCHANGED <<max_cache_size, models, last_used, locks, held, clock,
                   mylock, lru_model, evlock, outcome, loads>>
    /\ UNCHANGED notThreads

\* line 28: if model_name not in self.locks
CheckLock(t) ==
    /\ pc[t] = "check_lock"
    /\ Goto(t, IF locks[model_name[t]] = NoLock THEN "make_lock" ELSE "take_lock")
    /\ UNCHANGED <<max_cache_size, models, last_used, locks, held, clock, model_name,
                   mylock, lru_model, evlock, outcome, loads>>
    /\ UNCHANGED notThreads

\* line 29: self.locks[model_name] = Lock()
MakeLock(t) ==
    /\ pc[t] = "make_lock"
    /\ locks' = [locks EXCEPT ![model_name[t]] = <<model_name[t], t>>]
    /\ Goto(t, "take_lock")
    /\ UNCHANGED <<max_cache_size, models, last_used, held, clock, model_name,
                   mylock, lru_model, evlock, outcome, loads>>
    /\ UNCHANGED notThreads

\* line 31: the lock object is read from the dict ...
TakeLock(t) ==
    /\ pc[t] = "take_lock"
    /\ mylock' = [mylock EXCEPT ![t] = locks[model_name[t]]]
    /\ Goto(t, "acquire")
    /\ UNCHANGED <<max_cache_size, models, last_used, locks, held, clock, model_name,
                   lru_model, evlock, outcome, loads>>
    /\ UNCHANGED notThreads

\* ... and acquired (blocking while another caller holds it)
Acquire(t) ==
    /\ pc[t] = "acquire"
    /\ mylock[t] \notin held
    /\ held' = held \cup {mylock[t]}
    /\ Goto(t, "check_model")
    /\ UNCHANGED <<max_cache_size, models, last_used, locks, clock, model_name,
                   mylock, lru_model, evlock, outcome, loads>>
    /\ UNCHANGED notThreads

\* line 32: if model_name not in self.models
CheckModel(t) ==
    /\ pc[t] = "check_model"
    /\ Goto(t, IF model_name[t] \notin models THEN "cleanup" ELSE "touch")
    /\ UNCHANGED <<max_cache_size, models, last_used, locks, held, clock, model_name,
                   mylock, lru_model, evlock, outcome, loads>>
    /\ UNCHANGED notThreads

\* lines 99-101 of _cleanup_cache: the capacity test and the choice of the victim;
\* min() of an empty last_used raises ValueError, which leaves the with block
CleanupCheck(t) ==
    /\ pc[t] = "cleanup"
    /\ IF ~CacheFull(models, max_cache_size)
       THEN /\ Goto(t, "load")
            /\ UNCHANGED <<lru_model, held, outcome, model_name, mylock, evlock>>
       ELSE IF last_used = <<>>
       THEN Leave(t, "ValueError")
       ELSE /\ Goto(t, "evict_lock")
            /\ lru_model' = [lru_model EXCEPT ![t] = LruOf(last_used)]
            /\ UNCHANGED <<held, outcome, model_name, mylock, evlock>>
    /\ UNCHANGED <<max_cache_size, models, last_used, locks, clock, loads>>
    /\ UNCHANGED notThreads

\* line 105: with self.locks[lru_model]: the lock object is read ...
EvictLock(t) ==
    /\ pc[t] = "evict_lock"
    /\ evlock' = [evlock EXCEPT ![t] = locks[lru_model[t]]]
    /\ Goto(t, "evict_acquire")
    /\ UNCHANGED <<max_cache_size, models, last_used, locks, held, clock, model_name,
                   mylock, lru_model, outcome, loads>>
    /\ UNCHANGED notThreads

\* ... and acquired; threading.Lock is not reentrant
EvictAcquire(t) ==
    /\ pc[t] = "evict_acquire"
    /\ evlock[t] \notin held
    /\ held' = held \cup {evlock[t]}
    /\ Goto(t, "evict_models")
    /\ UNCHANGED <<max_cache_size, models, last_used, locks, clock, model_name,
                   mylock, lru_model, evlock, outcome, loads>>
    /\ UNCHANGED notThreads

\* line 106: del self.models[lru_model] (KeyError when it is gone)
EvictModels(t) ==
    /\ pc[t] = "evict_models"
    /\ IF lru_model[t] \in models
       THEN /\ models' = models \ {lru_model[t]}
            /\ Goto(t, "evict_last_used")
            /\ UNCHANGED <<held, outcome, model_name, mylock, lru_model, evlock>>
       ELSE /\ Leave(t, "KeyError")
            /\ UNCHANGED models
    /\ UNCHANGED <<max_cache_size, last_used, locks, clock, loads>>
    /\ UNCHANGED notThreads

\* lines 107-108: del self.last_used[lru_model]; empty_cache(); the lock is released
EvictLastUsed(t) ==
    /\ pc[t] = "evict_last_used"
    /\ IF lru_model[t] \in LuKeys(last_used)
       THEN /\ last_used' = LuDel(last_used, lru_model[t])
            /\ held' = held \ {evlock[t]}
            /\ evlock' = [evlock EXCEPT ![t] = NoLock]
            /\ Goto(t, "load")
            /\ UNCHANGED <<outcome, model_name, mylock, lru_model>>
       ELSE /\ Leave(t, "KeyError")
            /\ UNCHANGED last_used
    /\ UNCHANGED <<max_cache_size, models, locks, clock, loads>>
    /\ UNCHANGED notThreads

\* _load_model (lines 39-93): an unknown name raises ValueError; a known name
\* raises when its checkpoint directory is missing or the constructor fails
LoadCanSucceed(n) == n \in Loadable

Load(t) ==
    /\ pc[t] = "load"
    /\ \E ok \in BOOLEAN :
          IF ok /\ LoadCanSucceed(model_name[t])
          THEN /\ Goto(t, "store")
               /\ loads' = [loads EXCEPT ![model_name[t]] = Bump(@)]
               /\ UNCHANGED <<held, outcome, model_name, mylock, lru_model, evlock>>
          ELSE /\ Leave(t, "LoadError")
               /\ UNCHANGED loads
    /\ UNCHANGED <<max_cache_size, models, last_used, locks, clock>>
    /\ UNCHANGED notThreads

\* line 34: self.models[model_name] = <the loaded model>
Store(t) ==
    /\ pc[t] = "store"
    /\ models' = models \cup {model_name[t]}
    /\ Goto(t, "touch")
    /\ UNCHANGED <<max_cache_size, last_used, locks, held, clock, model_name,
                   mylock, lru_model, evlock, outcome, loads>>
    /\ UNCHANGED notThreads

\* line 36: self.last_used[model_name] = time.time()
Touch(t) ==
    /\ pc[t] = "touch"
    /\ last_used' = LuSet(last_used, model_name[t], clock)
    /\ Goto(t, "return")
    /\ UNCHANGED <<max_cache_size, models, locks, held, clock, model_name,
                   mylock, lru_model, evlock, outcome, loads>>
    /\ UNCHANGED notThreads

\* line 37: return self.models[model_name]; leaving the with block releases the lock
Return(t) ==
    /\ pc[t] = "return"
    /\ Leave(t, IF model_name[t] \in models THEN "ok" ELSE "KeyError")
    /\ UNCHANGED <<max_cache_size, models, last_used, locks, clock, loads>>
    /\ UNCHANGED notThreads

\* the wall clock moves on
Tick ==
    /\ clock < MaxClock
    /\ clock' = clock + 1
    /\ UNCHANGED <<max_cache_size, models, last_used, locks, held, pc, model_name,
                   mylock, lru_model, evlock, outcome, loads>>
    /\ UNCHANGED notThreads

\* one step of thread t, whose calls take their argument from the set names
GetModelStep(t, names) ==
    \/ \E n \in names : Call(t, n)
    \/ CheckLock(t)
    \/ MakeLock(t)
    \/ TakeLock(t)
    \/ Acquire(t)
    \/ CheckModel(t)
    \/ CleanupCheck(t)
    \/ EvictLock(t)
    \/ EvictAcquire(t)
    \/ EvictModels(t)
    \/ EvictLastUsed(t)
    \/ Load(t)
    \/ Store(t)
    \/ Touch(t)
    \/ Return(t)

vars == <<mmVars, ret, rateVars, chatVars, voiceVars, restVars>>

NoCall == [op |-> "none"]

Init ==
    /\ MMInit
    /\ ret = NoCall
    /\ requests = << >>
    /\ admitted = [k \in {"your-api-key-should-be-in-env", "other-key"} |-> <<>>]
    /\ tier_admitted = [k \in {"your-api-key-should-be-in-env", "other-key"} |->
                           [default |-> <<>>, premium |-> <<>>]]
    /\ rejected = [k \in {"your-api-key-should-be-in-env", "other-key"} |-> 0]
    /\ conversations = << >>
    /\ engine_conversations = << >>
    /\ chat_log = [c \in {"c1", "c2"} |-> <<>>]
    /\ engine_log = [c \in {"c1", "c2"} |-> <<>>]
    /\ voices = << >>
    /\ meta_files = << >>
    /\ emb_files = {}
    /\ AGENT = 0
    /\ constructions = <<>>
    /\ chat_pc = [t \in 1..NThreads |-> "idle"]
    /\ chat_conv = [t \in 1..NThreads |-> [obj |-> 0, fresh |-> FALSE, seen |-> 0, read |-> <<>>]]
    /\ heap = <<>>
    /\ conv_obj = << >>
    /\ autocast_enabled = FALSE
    /\ scope = [phase |-> "outside"]

\* the services run with the default MODEL_CACHE_SIZE (line 22)
DefaultCacheSize == 2
ServiceInit ==
    /\ Init
    /\ max_cache_size = DefaultCacheSize

\* concurrent callers of get_model
Next ==
    \/ \E t \in Threads : GetModelStep(t, Loadable)
    \/ Tick

Spec == Init /\ [][Next]_vars

\* concurrent callers of get_model, all for the same name
SameNameNext ==
    \/ \E t \in Threads : GetModelStep(t, {FishSpeech})
    \/ Tick

SameNameSpec == Init /\ [][SameNameNext]_vars

\* ------------------------------------------------------------------------
\* get_model as one uninterrupted call (a single caller: no lock is ever contended)
\* ------------------------------------------------------------------------
\* _cleanup_cache (lines 95-108) on the cache c = [models, last_used]: the cache
\* after it, the names it removed and the exception it raised, if any
CleanupCache(c, cap) ==
    IF ~CacheFull(c.models, cap)
    THEN [models |-> c.models, last_used |-> c.last_used, evicted |-> {}, raised |-> "none"]
    ELSE IF c.last_used = <<>>
    THEN [models |-> c.models, last_used |-> c.last_used, evicted |-> {},
          raised |-> "ValueError"]
    ELSE LET lru == LruOf(c.last_used)
         IN  IF lru \notin c.models
             THEN [models |-> c.models, last_used |-> c.last_used, evicted |-> {},
                   raised |-> "KeyError"]
             ELSE [models |-> c.models \ {lru},
                   last_used |-> LuDel(c.last_used, lru),
                   evicted |-> {lru}, raised |-> "none"]

\* get_model(n) (lines 24-37) at time t on the cache c; ok tells whether the
\* checkpoint loads. The result carries the cache after the call, the names
\* removed, whether _load_model was entered, and outcome ("ok" or the exception)
GetModel(c, cap, n, t, ok) ==
    IF n \in c.models
    THEN [models |-> c.models, last_used |-> LuSet(c.last_used, n, t),
          evicted |-> {}, loader_ran |-> FALSE, outcome |-> "ok"]
    ELSE LET cl == CleanupCache(c, cap)
         IN  IF cl.raised # "none"
             THEN [models |-> cl.models, last_used |-> cl.last_used,
                   evicted |-> cl.evicted, loader_ran |-> FALSE, outcome |-> cl.raised]
             ELSE IF ok /\ LoadCanSucceed(n)
             THEN [models |-> cl.models \cup {n},
                   last_used |-> LuSet(cl.last_used, n, t),
                   evicted |-> cl.evicted, loader_ran |-> TRUE, outcome |-> "ok"]
             ELSE [models |-> cl.models, last_used |-> cl.last_used,
                   evicted |-> cl.evicted, loader_ran |-> TRUE, outcome |-> "LoadError"]

\* lines 28-29: the lock of a name is created on its first use (0 names the
\* single caller as its creator)
LocksAfter(lk, n) == IF lk[n] = NoLock THEN [lk EXCEPT ![n] = <<n, 0>>] ELSE lk

Cache == [models |-> models, last_used |-> last_used]

\* the single caller calls get_model(n)
SeqGetModel(n) ==
    /\ \E ok \in BOOLEAN :
          LET r == GetModel(Cache, max_cache_size, n, clock, ok)
          IN  /\ models' = r.models
              /\ last_used' = r.last_used
              /\ locks' = LocksAfter(locks, n)
              /\ ret' = [op |-> "get_model", name |-> n, pre |-> Cache,
                         evicted |-> r.evicted, loader_ran |-> r.loader_ran,
                         outcome |-> r.outcome]
    /\ UNCHANGED <<max_cache_size, clock, threadVars, rateVars, chatVars, voiceVars, restVars>>

SeqTick ==
    /\ clock < MaxClock
    /\ clock' = clock + 1
    /\ UNCHANGED <<max_cache_size, models, last_used, locks, threadVars, ret, rateVars,
                   chatVars, voiceVars, restVars>>

\* sequential use of the model cache
SeqNext ==
    \/ \E n \in ModelNames : SeqGetModel(n)
    \/ SeqTick

SeqSpec == Init /\ [][SeqNext]_vars

\* ------------------------------------------------------------------------
\* Authentication and rate limiting (custom/utils/auth.py)
\* ------------------------------------------------------------------------
\* API_KEY (line 13) and the keys a caller may present: none at all, the empty
\* string, a wrong key, the right key
API_KEY == "your-api-key-should-be-in-env"
NoKey == "None"
ApiKeys == {NoKey, "", "wrong-key", API_KEY}
\* keys is_rate_limited is called with directly
RateKeys == {API_KEY, "other-key"}

\* RateLimiter.rate_limits (lines 75-78)
RateLimits ==
    [default |-> [calls |-> 10, window |-> 60],
     premium |-> [calls |-> 100, window |-> 60]]
Tiers == DOMAIN RateLimits

\* verify_api_key (lines 15-21)
VerifyApiKey(k) ==
    IF k = NoKey \/ k = "" THEN FALSE ELSE k = API_KEY

\* the entries of one key that line 95 keeps: now - req_time < window
Retained(reqs, key, window, t) ==
    IF key \notin DOMAIN reqs THEN <<>>
    ELSE SelectSeq(reqs[key], LAMBDA r : t - r < window)

\* (a variant that keeps an entry for one second too long)
IsRateLimitedInclusive(reqs, key, tier, t) ==
    LET kept == IF key \notin DOMAIN reqs THEN <<>>
                ELSE SelectSeq(reqs[key], LAMBDA r : t - r <= RateLimits[tier].window)
        full == Len(kept) >= RateLimits[tier].calls
    IN  [requests |-> (key :> (IF full THEN kept ELSE Append(kept, t))) @@ reqs,
         limited |-> full]
\* (a variant that admits one call more than the ceiling)
IsRateLimitedOffByOne(reqs, key, tier, t) ==
    LET kept == Retained(reqs, key, RateLimits[tier].window, t)
        full == Len(kept) > RateLimits[tier].calls
    IN  [requests |-> (key :> (IF full THEN kept ELSE Append(kept, t))) @@ reqs,
         limited |-> full]
\* (a variant that records a rejected call too)
IsRateLimitedRecording(reqs, key, tier, t) ==
    LET kept == Retained(reqs, key, RateLimits[tier].window, t)
        full == Len(kept) >= RateLimits[tier].calls
    IN  [requests |-> (key :> Append(kept, t)) @@ reqs,
         limited |-> full]
\* RateLimiter.is_rate_limited (lines 80-102) at time t: the requests map after
\* the call and the value returned
IsRateLimited(reqs, key, tier, t) ==
    LET kept == Retained(reqs, key, RateLimits[tier].window, t)
        full == Len(kept) >= RateLimits[tier].calls
    IN  [requests |-> (key :> (IF full THEN kept ELSE Append(kept, t))) @@ reqs,
         limited |-> full]

\* (a variant that consults the rate limiter before it verifies the key)
AuthenticateRateFirst(reqs, key, tier, t) ==
    LET r == IsRateLimited(reqs, key, tier, t)
    IN  IF r.limited
        THEN [requests |-> r.requests, code |-> 429,
              retry_after |-> RateLimits[tier].window]
        ELSE IF ~VerifyApiKey(key)
        THEN [requests |-> r.requests, code |-> 401, retry_after |-> 0]
        ELSE [requests |-> r.requests, code |-> 200, retry_after |-> 0]
\* authenticate_request (lines 125-142) at time t: the requests map after the
\* call, the status code (200 for the normal return) and the Retry-After header
\* (a variant that lets every call through)
AuthenticateNobody(reqs, key, tier, t) ==
    [requests |-> reqs, code |-> 200, retry_after |-> 0]
AuthenticateRequest(reqs, key, tier, t) ==
    IF ~VerifyApiKey(key)
    THEN [requests |-> reqs, code |-> 401, retry_after |-> 0]
    ELSE LET r == IsRateLimited(reqs, key, tier, t)
         IN  IF r.limited
             THEN [requests |-> r.requests, code |-> 429,
                   retry_after |-> RateLimits[tier].window]
             ELSE [requests |-> r.requests, code |-> 200, retry_after |-> 0]

\* the log of recent admissions, after a call for key at time t
Admit(log, key, t, wasAdmitted) ==
    IF wasAdmitted THEN [log EXCEPT ![key] = Append(@, t)] ELSE log
AdmitTier(log, key, tier, t, wasAdmitted) ==
    IF wasAdmitted /\ key \in DOMAIN log
    THEN [log EXCEPT ![key][tier] = Append(@, t)]
    ELSE log

\* the count of rejections since the last admission, after a call for key that
\* reached the rate limiter (checked) and was rejected or admitted
Reject(rej, key, checked, limited) ==
    IF checked /\ key \in DOMAIN rej
    THEN [rej EXCEPT ![key] = IF limited THEN Bump(@) ELSE 0]
    ELSE rej

\* a direct call of rate_limiter.is_rate_limited(key, tier)
RateCall(key, tier) ==
    /\ LET r == IsRateLimited(requests, key, tier, clock)
       IN  /\ requests' = r.requests
           /\ admitted' = Admit(admitted, key, clock, ~r.limited)
           /\ tier_admitted' = AdmitTier(tier_admitted, key, tier, clock, ~r.limited)
           /\ rejected' = Reject(rejected, key, TRUE, r.limited)
           /\ ret' = [op |-> "is_rate_limited", key |-> key, tier |-> tier,
                      at |-> clock, pre |-> requests, recent |-> admitted[key],
                      recent_tier |-> tier_admitted[key][tier],
                      rejected |-> rejected[key],
                      limited |-> r.limited]
    /\ UNCHANGED <<cacheVars, threadVars, chatVars, voiceVars, restVars>>

\* a call of authenticate_request(key, tier)
Authenticate(key, tier) ==
    /\ LET r == AuthenticateRequest(requests, key, tier, clock)
       IN  /\ requests' = r.requests
           /\ admitted' = IF key \in RateKeys
                          THEN Admit(admitted, key, clock, r.code = 200)
                          ELSE admitted
           /\ tier_admitted' = AdmitTier(tier_admitted, key, tier, clock, r.code = 200)
           /\ rejected' = Reject(rejected, key, r.code # 401, r.code = 429)
           /\ ret' = [op |-> "authenticate_request", key |-> key, tier |-> tier,
                      at |-> clock, pre |-> requests,
                      recent |-> IF key \in RateKeys THEN admitted[key] ELSE <<>>,
                      recent_tier |-> IF key \in RateKeys THEN tier_admitted[key][tier]
                                      ELSE <<>>,
                      rejected |-> IF key \in RateKeys THEN rejected[key] ELSE 0,
                      code |-> r.code, retry_after |-> r.retry_after]
    /\ UNCHANGED <<cacheVars, threadVars, chatVars, voiceVars, restVars>>

\* the instants at which calls are made: the ends of the windows that start at
\* time 0, and the second before each
WindowLength == RateLimits["default"].window
RateTimes ==
    {0} \cup UNION {{k * WindowLength - 1, k * WindowLength} : k \in 1..MaxWindows}

\* time passes, to a later instant
RateTick(t) ==
    /\ t > clock
    /\ clock' = t
    /\ admitted' = [k \in RateKeys |->
                       SelectSeq(admitted[k], LAMBDA a : t - a < WindowLength)]
    /\ tier_admitted' =
          [k \in RateKeys |->
              [tier \in Tiers |->
                  SelectSeq(tier_admitted[k][tier],
                            LAMBDA a : t - a < RateLimits[tier].window)]]
    /\ UNCHANGED <<max_cache_size, models, last_used, locks, threadVars, ret, requests,
                   rejected, chatVars, voiceVars, restVars>>

\* the rate limiter used with the default tier only
RateNext ==
    \/ \E k \in RateKeys : RateCall(k, "default")
    \/ \E k \in ApiKeys : Authenticate(k, "default")
    \/ \E t \in RateTimes : RateTick(t)

RateSpec == ServiceInit /\ [][RateNext]_vars

\* the rate limiter used with both tiers, at instants a whole window apart
TierNext ==
    \/ \E k \in {API_KEY}, tier \in Tiers : RateCall(k, tier)
    \/ \E k \in ApiKeys, tier \in Tiers : Authenticate(k, tier)
    \/ \E w \in 1..MaxWindows : RateTick(w * WindowLength)

TierSpec == ServiceInit /\ [][TierNext]_vars

\* (a variant that records the inquiry as a call)
GetRemainingCallsConsuming(reqs, key, tier, t) ==
    LET kept == Retained(reqs, key, RateLimits[tier].window, t)
        left == RateLimits[tier].calls - Len(kept)
    IN  [requests |-> (key :> Append(kept, t)) @@ reqs,
         remaining |-> IF left < 0 THEN 0 ELSE left]
\* RateLimiter.get_remaining_calls (lines 104-120) at time t: the requests map
\* after the call and the value returned
GetRemainingCalls(reqs, key, tier, t) ==
    LET max_calls == RateLimits[tier].calls
        current_calls == Len(Retained(reqs, key, RateLimits[tier].window, t))
    IN  [requests |-> reqs,
         remaining |-> IF key \notin DOMAIN reqs THEN max_calls
                       ELSE IF max_calls - current_calls < 0 THEN 0
                       ELSE max_calls - current_calls]

\* a direct call of rate_limiter.get_remaining_calls(key, tier)
RemainingCall(key, tier) ==
    /\ \E r \in {GetRemainingCalls(requests, key, tier, clock)} :
           /\ requests' = r.requests
           /\ ret' = [op |-> "get_remaining_calls", key |-> key, tier |-> tier,
                      at |-> clock, pre |-> requests, remaining |-> r.remaining]
    /\ UNCHANGED <<cacheVars, threadVars, chatVars, voiceVars, restVars, admitted, tier_admitted,
                   rejected>>

\* inquiries about the headroom between the calls of one key under both tiers
RemainingNext ==
    \/ \E tier \in Tiers : RateCall(API_KEY, tier)
    \/ \E k \in RateKeys, tier \in Tiers : RemainingCall(k, tier)
    \/ \E w \in 1..MaxWindows : RateTick(w * WindowLength)

RemainingSpec == ServiceInit /\ [][RemainingNext]_vars

\* ------------------------------------------------------------------------
\* Agent chat service (custom/api/agent.py) and the engine-bound job handler
\* (agent_server/handler.py)
\* ------------------------------------------------------------------------
ConvIds == {"c1", "c2"}
\* conversation_id absent (None) or the empty string: both are false in `if`
NoId == "None"
ConvOpts == ConvIds \cup {NoId, ""}
HasId(cid) == cid # NoId /\ cid # ""
Messages == {"m1", "m2"}
Replies == {"r1"}
\* reference_audio: absent, base64 that decodes, base64 that b64decode rejects
NoAudio == "None"
GoodAudio == "UklGRg=="
BadAudio == "x"
RefAudios == {NoAudio, GoodAudio, BadAudio}
HasAudio(ref) == ref # NoAudio /\ ref # ""
\* base64.b64decode raises on a string whose padding is wrong
B64DecodeOk(ref) == ref # BadAudio

UserMsg(m) == [role |-> "user", content |-> m]
AssistantMsg(r) == [role |-> "assistant", content |-> r]

\* conversation[-10:]
KeepFirstTen(h) == IF Len(h) <= 10 THEN h ELSE SubSeq(h, 1, 10)
KeepLastTen(h) == IF Len(h) <= 10 THEN h ELSE SubSeq(h, Len(h) - 9, Len(h))

\* self.conversations.get(conversation_id, [])
GetConversation(convs, cid) == IF cid \in DOMAIN convs THEN convs[cid] ELSE <<>>

\* the record of everything appended
Logged(log, cid, m, r) ==
    IF cid \in ConvIds
    THEN [log EXCEPT ![cid] = @ \o <<UserMsg(m), AssistantMsg(r)>>]
    ELSE log

Rounds ==
    LET n(log) == Len(log["c1"]) + Len(log["c2"])
    IN  (n(chat_log) + n(engine_log)) \div 2

\* what may go wrong at the model boundary during one call (at most one fault
\* matters: the first one decides the path): the checkpoint of the agent model
\* does not load, agent_model.generate raises, the checkpoint of the speech
\* model does not load, speech_model.generate (or the encoding of its audio)
\* raises
ChatFaults == {"none", "agent_load", "generate", "speech_load", "synthesis"}

\* (a variant that stores the round whether or not an id was given)
UpdateHistoryAnyId(convs, cid, m, r) ==
    (cid :> KeepLastTen(GetConversation(convs, cid)
                          \o <<UserMsg(m), AssistantMsg(r)>>)) @@ convs
\* lines 62-68 of agent.py (and 65-71 of agent_server/handler.py): the history
\* map after a round with message m and reply r under conversation id cid
UpdateHistory(convs, cid, m, r) ==
    IF HasId(cid)
    THEN (cid :> KeepLastTen(GetConversation(convs, cid)
                               \o <<UserMsg(m), AssistantMsg(r)>>)) @@ convs
    ELSE convs

\* AgentChat.chat (lines 23-119) with stream false, on the history map convs and
\* the cache c at time t: message m, conversation id cid, reference audio ref,
\* the reply r of the model
ChatResult(convs, c, cap, t, m, cid, ref, r, fault) ==
    LET g1 == GetModel(c, cap, FishAgent, t, fault # "agent_load")
        c1 == [models |-> g1.models, last_used |-> g1.last_used]
        g2 == GetModel(c1, cap, FishSpeech, t, fault # "speech_load")
        c2 == [models |-> g2.models, last_used |-> g2.last_used]
        h  == UpdateHistory(convs, cid, m, r)
    IN  IF g1.outcome # "ok" \/ fault = "generate"
        THEN [cache |-> c1, conversations |-> convs, status |-> "error", code |-> 500,
              text |-> "", error |-> "Chat processing failed",
              generated |-> FALSE, synthesis |-> "none",
              calls |-> IF g1.outcome # "ok" THEN 0 ELSE 1]
        ELSE IF ~HasAudio(ref)
        THEN [cache |-> c1, conversations |-> h, status |-> "success", code |-> 200,
              text |-> r, error |-> "", generated |-> TRUE, synthesis |-> "none",
              calls |-> 1]
        ELSE IF g2.outcome # "ok"
        THEN [cache |-> c2, conversations |-> h, status |-> "error", code |-> 500,
              text |-> "", error |-> "Chat processing failed",
              generated |-> TRUE, synthesis |-> "load_failed", calls |-> 1]
        ELSE IF ~B64DecodeOk(ref) \/ fault = "synthesis"
        THEN [cache |-> c2, conversations |-> h, status |-> "partial_success",
              code |-> 200, text |-> r, error |-> "Speech generation failed",
              generated |-> TRUE,
              synthesis |-> IF B64DecodeOk(ref) THEN "generate_failed"
                            ELSE "decode_failed",
              calls |-> IF B64DecodeOk(ref) THEN 2 ELSE 1]
        ELSE [cache |-> c2, conversations |-> h, status |-> "success", code |-> 200,
              text |-> r, error |-> "", generated |-> TRUE, synthesis |-> "ok",
              calls |-> 2]

\* the locks dict after a chat call: one lock per model asked for
ChatLocks(lk, r) ==
    IF r.synthesis = "none" THEN LocksAfter(lk, FishAgent)
    ELSE LocksAfter(LocksAfter(lk, FishAgent), FishSpeech)

\* a call of AgentChat.chat with stream = false
Chat(m, cid, ref) ==
    /\ Rounds < MaxRounds
    /\ \E r \in Replies, fault \in ChatFaults :
          \E res \in {ChatResult(conversations, Cache, max_cache_size, clock, m, cid,
                                 ref, r, fault)} :
              /\ models' = res.cache.models
              /\ last_used' = res.cache.last_used
              /\ locks' = ChatLocks(locks, res)
              /\ conversations' = res.conversations
              /\ chat_log' = IF res.generated THEN Logged(chat_log, cid, m, r)
                             ELSE chat_log
              /\ ret' = [op |-> "chat", ref |-> ref, status |-> res.status,
                         code |-> res.code, text |-> res.text, error |-> res.error,
                         reply |-> r, generated |-> res.generated,
                         synthesis |-> res.synthesis]
    /\ UNCHANGED <<max_cache_size, clock, threadVars, rateVars, engine_conversations,
                   engine_log, voiceVars, restVars>>

\* the request lists given to batch_chat: items [message, conversation_id]
BatchRequests(ids) ==
    UNION {[1..n -> [message : Messages, conversation_id : ids]] : n \in 0..MaxBatch}
\* batch_size: one request per model call, or the default (line 181)
BatchSizes == {1, 4}

\* (a variant that extends a new list instead of the stored one)
BatchItemHistoryFresh(convs, cid, m, r) ==
    IF HasId(cid)
    THEN (cid :> KeepLastTen(<<UserMsg(m), AssistantMsg(r)>>)) @@ convs
    ELSE convs
\* lines 215-222: the history map after one item of a batch; the stored list is
\* read again for every item (line 217), extended and cut to its last 10
BatchItemHistory(convs, cid, m, r) ==
    IF HasId(cid)
    THEN LET conversation == GetConversation(convs, cid)
                                 \o <<UserMsg(m), AssistantMsg(r)>>
         IN  (cid :> KeepLastTen(conversation)) @@ convs
    ELSE convs

\* lines 212-224: the history map after the items i..Len(reqs) of a list were
\* processed in order, replies[i] being the reply to item i
RECURSIVE BatchHistory(_, _, _, _, _)
BatchHistory(convs, reqs, replies, i, last) ==
    IF i > last THEN convs
    ELSE BatchHistory(BatchItemHistory(convs, reqs[i].conversation_id, reqs[i].message,
                                       replies[i]),
                      reqs, replies, i + 1, last)
RECURSIVE BatchLogged(_, _, _, _, _)
BatchLogged(log, reqs, replies, i, last) ==
    IF i > last THEN log
    ELSE BatchLogged(Logged(log, reqs[i].conversation_id, reqs[i].message, replies[i]),
                     reqs, replies, i + 1, last)

\* range(0, len(requests), batch_size): the number of model calls
NumChunks(n, size) == (n + size - 1) \div size
Min(a, b) == IF a < b THEN a ELSE b

\* AgentChat.batch_chat (lines 178-236); failChunk = k > 0: the k-th batched
\* model call raises, after the chunks before it were processed
BatchChatResult(convs, c, cap, t, reqs, size, replies, agentOk, failChunk) ==
    LET g1 == GetModel(c, cap, FishAgent, t, agentOk)
        c1 == [models |-> g1.models, last_used |-> g1.last_used]
        n  == Len(reqs)
        failing == failChunk >= 1 /\ failChunk <= NumChunks(n, size)
        done == IF failing THEN Min(n, (failChunk - 1) * size) ELSE n
    IN  IF g1.outcome # "ok"
        THEN [cache |-> c1, conversations |-> convs, status |-> "error", code |-> 500,
              processed |-> 0, calls |-> 0]
        ELSE [cache |-> c1,
              conversations |-> BatchHistory(convs, reqs, replies, 1, done),
              status |-> IF failing THEN "error" ELSE "success",
              code |-> IF failing THEN 500 ELSE 200,
              processed |-> done,
              calls |-> IF failing THEN failChunk ELSE NumChunks(n, size)]

\* what may go wrong during one batch call: the agent model does not load, or
\* one of the batched model calls raises
BatchFaults ==
    {[agentOk |-> FALSE, failChunk |-> 0]}
        \cup {[agentOk |-> TRUE, failChunk |-> k] : k \in 0..MaxBatch}

\* a call of AgentChat.batch_chat; recorded: the record of the call keeps the
\* request list and the replies
BatchChatStep(reqs, size, recorded) ==
    /\ Rounds + Len(reqs) <= MaxRounds
    /\ \E replies \in [1..Len(reqs) -> Replies], f \in BatchFaults :
          \E res \in {BatchChatResult(conversations, Cache, max_cache_size, clock, reqs,
                                      size, replies, f.agentOk, f.failChunk)} :
              /\ models' = res.cache.models
              /\ last_used' = res.cache.last_used
              /\ locks' = LocksAfter(locks, FishAgent)
              /\ conversations' = res.conversations
              /\ chat_log' = BatchLogged(chat_log, reqs, replies, 1, res.processed)
              /\ ret' = IF recorded
                         THEN [op |-> "batch_chat", status |-> res.status,
                               code |-> res.code, count |-> Len(reqs),
                               processed |-> res.processed,
                               reqs |-> reqs, size |-> size, replies |-> replies]
                         ELSE [op |-> "batch_chat", status |-> res.status,
                               code |-> res.code, count |-> Len(reqs),
                               processed |-> res.processed]
    /\ UNCHANGED <<max_cache_size, clock, threadVars, rateVars, engine_conversations,
                   engine_log, voiceVars, restVars>>

BatchChat(reqs, size) == BatchChatStep(reqs, size, FALSE)
BatchChatRecorded(reqs, size) == BatchChatStep(reqs, size, TRUE)

\* non-streaming chat called on the items i.. of a list one by one, in list
\* order, every call succeeding with the reply replies[i]: the history map
\* after the last call
RECURSIVE ChatSequence(_, _, _, _, _, _, _)
ChatSequence(convs, c, cap, t, reqs, replies, i) ==
    IF i > Len(reqs) THEN convs
    ELSE LET res == ChatResult(convs, c, cap, t, reqs[i].message,
                               reqs[i].conversation_id, NoAudio, replies[i], "none")
         IN  ChatSequence(res.conversations, res.cache, cap, t, reqs, replies, i + 1)

\* chat and batch_chat under two conversation ids, or none
BatchIds == {"c1", "c2", NoId}
BatchNext ==
    \/ \E m \in Messages, cid \in BatchIds : Chat(m, cid, NoAudio)
    \/ \E reqs \in BatchRequests(BatchIds), size \in BatchSizes :
          BatchChatRecorded(reqs, size)

BatchSpec == ServiceInit /\ [][BatchNext]_vars

\* what may go wrong in the engine-bound handler: agent_generator.generate
\* raises, inference_engine.generate_speech raises
EngineFaults == {"none", "generate", "speech"}
\* input.message: a text, or absent (None, which line 44 treats like "")
NoMessage == "None"
EngineMessages == Messages \cup {NoMessage}

\* line 44: `not message` holds for an absent message and for the empty string
HasMessage(m) == m # NoMessage /\ m # ""
\* job.get('id', 'unknown') (line 36)
NoEngineJobId == "None"
EngineJobIds == {"job-1", NoEngineJobId}
EngineJobId(id) == IF id = NoEngineJobId THEN "unknown" ELSE id

\* (a variant that asks the generator before it looks at the message)
EngineResultUnchecked(convs, hasInput, m, cid, ref, r, fault) ==
    IF fault = "generate"
    THEN [conversations |-> convs, status |-> "error", text |-> "",
          generated |-> FALSE, trace |-> <<"model", "clear">>]
    ELSE [conversations |-> UpdateHistory(convs, cid, m, r), status |-> "success",
          text |-> r, generated |-> TRUE, trace |-> <<"model", "clear">>]
\* agent_server RunPodHandler.handler (lines 31-107); hasInput: the job has a
\* non-empty input; trace: the model invocations and the cache cleanup of the
\* finally block (lines 104-107), in the order they happen
EngineResult(convs, hasInput, m, cid, ref, r, fault) ==
    IF ~hasInput \/ ~HasMessage(m)
    THEN [conversations |-> convs, status |-> "error", text |-> "",
          generated |-> FALSE, trace |-> <<"clear">>]
    ELSE IF fault = "generate"
    THEN [conversations |-> convs, status |-> "error", text |-> "",
          generated |-> FALSE, trace |-> <<"model", "clear">>]
    ELSE IF HasAudio(ref) /\ fault = "speech"
    THEN [conversations |-> UpdateHistory(convs, cid, m, r), status |-> "error",
          text |-> "", generated |-> TRUE, trace |-> <<"model", "model", "clear">>]
    ELSE [conversations |-> UpdateHistory(convs, cid, m, r), status |-> "success",
          text |-> r, generated |-> TRUE,
          trace |-> IF HasAudio(ref) THEN <<"model", "model", "clear">>
                    ELSE <<"model", "clear">>]

\* a job handled by the engine-bound handler
EngineHandler(id, hasInput, m, cid, ref) ==
    /\ Rounds < MaxRounds
    /\ \E r \in Replies, fault \in EngineFaults :
          \E res \in {EngineResult(engine_conversations, hasInput, m, cid, ref, r,
                                   fault)} :
              /\ engine_conversations' = res.conversations
              /\ engine_log' = IF res.generated THEN Logged(engine_log, cid, m, r)
                               ELSE engine_log
              /\ ret' = [op |-> "engine", ref |-> ref,
                         status |-> res.status, text |-> res.text,
                         generated |-> res.generated,
                         id |-> EngineJobId(id), job_id |-> id, has_input |-> hasInput,
                         message |-> IF m \in Messages THEN "text" ELSE m,
                         trace |-> res.trace]
    /\ UNCHANGED <<cacheVars, threadVars, rateVars, conversations, chat_log, voiceVars, restVars>>

\* non-streaming chat through the three entry points, under one conversation id
\* or none
ChatIds == {"c1", NoId}
ChatNext ==
    \/ \E m \in Messages, cid \in ChatIds, ref \in RefAudios : Chat(m, cid, ref)
    \/ \E reqs \in BatchRequests(ChatIds), size \in BatchSizes : BatchChat(reqs, size)
    \/ \E m \in EngineMessages, cid \in ChatIds, ref \in RefAudios :
          EngineHandler("job-1", TRUE, m, cid, ref)

ChatSpec == ServiceInit /\ [][ChatNext]_vars

\* concurrent non-streaming chat calls under one conversation id; lists are
\* objects: heap[o] is the content of list o, conv_obj[cid] the list stored in
\* self.conversations under cid
NoConv == [obj |-> 0, fresh |-> FALSE, seen |-> 0, read |-> <<>>]
Stored(h, objs) == [c \in DOMAIN objs |-> h[objs[c]]]
CallMessage(t) == IF t = 1 THEN "m1" ELSE "m2"
CallsStarted == Len(heap)

\* (a variant that stores the new list under the id when it creates it)
ReadHistoryRegistering(h, objs, cid) ==
    IF cid \in DOMAIN objs
    THEN [heap |-> h, conv_obj |-> objs, obj |-> objs[cid], fresh |-> FALSE]
    ELSE [heap |-> Append(h, <<>>), conv_obj |-> (cid :> (Len(h) + 1)) @@ objs,
          obj |-> Len(h) + 1, fresh |-> TRUE]
\* conversation = self.conversations.get(params.conversation_id, []) (line 33):
\* the stored list itself, or a new empty list that is not stored
ReadHistory(h, objs, cid) ==
    IF cid \in DOMAIN objs
    THEN [heap |-> h, conv_obj |-> objs, obj |-> objs[cid], fresh |-> FALSE]
    ELSE [heap |-> Append(h, <<>>), conv_obj |-> objs, obj |-> Len(h) + 1,
          fresh |-> TRUE]

\* conversation.extend([...]); self.conversations[id] = conversation[-10:]
\* (lines 63-68): the list is extended in place and a copy of its tail is stored
WriteHistory(h, objs, cid, o, m, r) ==
    LET extended == h[o] \o <<UserMsg(m), AssistantMsg(r)>>
        h1 == [h EXCEPT ![o] = extended]
    IN  [heap |-> Append(h1, KeepLastTen(extended)),
         conv_obj |-> (cid :> (Len(h) + 1)) @@ objs]

\* chat up to its suspension at `await agent_model.generate` (lines 27-60): the
\* agent model is fetched and the history is read
ChatCallStart(t) ==
    /\ chat_pc[t] = "idle"
    /\ CallsStarted < 2 * MaxCalls
    /\ \E ok \in BOOLEAN :
          \E g \in {GetModel(Cache, max_cache_size, FishAgent, clock, ok)} :
              /\ models' = g.models
              /\ last_used' = g.last_used
              /\ locks' = LocksAfter(locks, FishAgent)
              /\ IF g.outcome # "ok"
                 THEN /\ ret' = [op |-> "chat_call", thread |-> t, code |-> 500,
                                 fresh |-> FALSE, seen |-> 0, read |-> <<>>]
                      /\ UNCHANGED callVars
                 ELSE \E rd \in {ReadHistory(heap, conv_obj, "c1")} :
                        /\ heap' = rd.heap
                        /\ conv_obj' = rd.conv_obj
                        /\ chat_conv' = [chat_conv EXCEPT ![t] =
                                            [obj |-> rd.obj, fresh |-> rd.fresh,
                                             seen |-> Len(chat_log["c1"]),
                                             read |-> rd.heap[rd.obj]]]
                        /\ chat_pc' = [chat_pc EXCEPT ![t] = "generate"]
                        /\ UNCHANGED ret
    /\ conversations' = Stored(heap', conv_obj')
    /\ UNCHANGED <<max_cache_size, clock, threadVars, rateVars, engine_conversations,
                   chat_log, engine_log, voiceVars, e2eVars, scopeVars>>

\* chat from the return of generate to its end (lines 60-119), without reference
\* audio: the history is written back, or generate raised
ChatCallFinish(t) ==
    /\ chat_pc[t] = "generate"
    /\ chat_pc' = [chat_pc EXCEPT ![t] = "idle"]
    /\ chat_conv' = [chat_conv EXCEPT ![t] = NoConv]
    /\ \E ok \in BOOLEAN, r \in Replies :
          IF ~ok
          THEN /\ ret' = [op |-> "chat_call", thread |-> t, code |-> 500,
                          fresh |-> chat_conv[t].fresh, seen |-> chat_conv[t].seen,
                          read |-> chat_conv[t].read]
               /\ UNCHANGED <<heap, conv_obj, chat_log>>
          ELSE \E w \in {WriteHistory(heap, conv_obj, "c1", chat_conv[t].obj,
                                      CallMessage(t), r)} :
                 /\ heap' = w.heap
                 /\ conv_obj' = w.conv_obj
                 /\ chat_log' = Logged(chat_log, "c1", CallMessage(t), r)
                 /\ ret' = [op |-> "chat_call", thread |-> t, code |-> 200,
                            fresh |-> chat_conv[t].fresh, seen |-> chat_conv[t].seen,
                          read |-> chat_conv[t].read]
    /\ conversations' = Stored(heap', conv_obj')
    /\ UNCHANGED <<cacheVars, threadVars, rateVars, engine_conversations, engine_log,
                   voiceVars, e2eVars, scopeVars>>

ConcurrentChatNext == \E t \in Threads : ChatCallStart(t) \/ ChatCallFinish(t)

ConcurrentChatSpec == ServiceInit /\ [][ConcurrentChatNext]_vars

\* jobs of every shape sent to the engine-bound handler
EngineNext ==
    \E id \in EngineJobIds, hasInput \in BOOLEAN, m \in EngineMessages \cup {""},
       cid \in ChatIds, ref \in RefAudios :
        EngineHandler(id, hasInput, m, cid, ref)

EngineSpec == ServiceInit /\ [][EngineNext]_vars

\* the three non-streaming entry points under two conversation ids, an absent
\* id and the empty id
IsolationRequests ==
    UNION {[1..n -> [message : {"m1"}, conversation_id : ConvOpts]] : n \in 0..MaxBatch}
IsolationNext ==
    \/ \E cid \in ConvOpts : Chat("m1", cid, NoAudio)
    \/ \E reqs \in IsolationRequests, size \in BatchSizes : BatchChatRecorded(reqs, size)
    \/ \E cid \in ConvOpts, ref \in {NoAudio, GoodAudio} :
          EngineHandler("job-1", TRUE, "m1", cid, ref)

IsolationSpec == ServiceInit /\ [][IsolationNext]_vars

\* the events of a streamed response: token events, audio-chunk events and the
\* two terminal events
TokenEvents(k) == [i \in 1..k |-> [status |-> "streaming", n |-> i]]
AudioEvents(k) == [i \in 1..k |-> [status |-> "streaming_audio", n |-> i]]
CompleteEvent == [status |-> "complete", n |-> 0]
ErrorEvent == [status |-> "error", n |-> 0]

\* what may go wrong at the model boundary of a streamed call: the agent model
\* does not load, generate_stream raises while tokens are produced,
\* get_generated_tokens (or the join of its tokens) raises, the speech model
\* does not load, speech_model.generate_stream raises, the iteration over the
\* audio chunks (or the encoding of a chunk) raises
StreamFaultKinds ==
    {"none", "agent_load", "tokens", "collect", "speech_load", "speech_stream", "chunks"}
\* a fault in the token stream or in the chunk iteration comes after some items
StreamFaults ==
    {[kind |-> k, after |-> 0] : k \in StreamFaultKinds \ {"tokens", "chunks"}}
        \cup {[kind |-> "tokens", after |-> k] : k \in 0..MaxTokens}
        \cup {[kind |-> "chunks", after |-> k] : k \in 0..MaxChunks}

\* (a variant whose failure path ends without an event)
StreamEventsSilentError(nTok, nChunks, ref, fault, failAfter, speechLoaded) ==
    IF fault = "tokens" THEN TokenEvents(Min(failAfter, nTok))
    ELSE IF ~HasAudio(ref) THEN TokenEvents(nTok) \o <<CompleteEvent>>
    ELSE IF \/ fault \in {"collect", "speech_stream"}
            \/ ~speechLoaded
            \/ ~B64DecodeOk(ref)
    THEN TokenEvents(nTok)
    ELSE IF fault = "chunks"
    THEN TokenEvents(nTok) \o AudioEvents(Min(failAfter, nChunks))
    ELSE TokenEvents(nTok) \o AudioEvents(nChunks) \o <<CompleteEvent>>
\* (a variant that synthesises the audio before it relays the tokens)
StreamEventsAudioFirst(nTok, nChunks, ref, fault, failAfter, speechLoaded) ==
    IF fault = "tokens" THEN TokenEvents(Min(failAfter, nTok)) \o <<ErrorEvent>>
    ELSE IF ~HasAudio(ref) THEN TokenEvents(nTok) \o <<CompleteEvent>>
    ELSE IF \/ fault \in {"collect", "speech_stream"}
            \/ ~speechLoaded
            \/ ~B64DecodeOk(ref)
    THEN TokenEvents(nTok) \o <<ErrorEvent>>
    ELSE IF fault = "chunks"
    THEN AudioEvents(Min(failAfter, nChunks)) \o TokenEvents(nTok) \o <<ErrorEvent>>
    ELSE AudioEvents(nChunks) \o TokenEvents(nTok) \o <<CompleteEvent>>
\* AgentChat._stream_response (lines 121-176) consumed to its end: the model
\* would stream nTok tokens and nChunks audio chunks; a fault "tokens" or
\* "chunks" raises after failAfter items; speechLoaded is the outcome of
\* get_model('fish-speech') when the generator comes to ask for it
StreamEvents(nTok, nChunks, ref, fault, failAfter, speechLoaded) ==
    IF fault = "tokens" THEN TokenEvents(Min(failAfter, nTok)) \o <<ErrorEvent>>
    ELSE IF ~HasAudio(ref) THEN TokenEvents(nTok) \o <<CompleteEvent>>
    ELSE IF \/ fault \in {"collect", "speech_stream"}
            \/ ~speechLoaded
            \/ ~B64DecodeOk(ref)
    THEN TokenEvents(nTok) \o <<ErrorEvent>>
    ELSE IF fault = "chunks"
    THEN TokenEvents(nTok) \o AudioEvents(Min(failAfter, nChunks)) \o <<ErrorEvent>>
    ELSE TokenEvents(nTok) \o AudioEvents(nChunks) \o <<CompleteEvent>>

\* the model invocations and the calls of clear_gpu_cache of a streamed call, in
\* the order they happen: chat (lines 27-53, 118-119) fetches the agent model,
\* creates the generator and returns it through its finally block; the body of
\* _stream_response (lines 121-176) runs when the caller consumes the generator
StreamTrace(agentLoaded, ref, fault, speechLoaded) ==
    IF ~agentLoaded THEN <<"clear">>
    ELSE <<"clear", "model">> \o
         (IF /\ fault \notin {"tokens", "collect"}
             /\ HasAudio(ref)
             /\ speechLoaded
             /\ B64DecodeOk(ref)
          THEN <<"model">>
          ELSE <<>>)

\* (a variant that stores the round as the non-streaming path does)
StreamHistoryStoring(convs, cid, m, r) == UpdateHistory(convs, cid, m, r)
\* lines 45-53 and 121-176: the history map after a streamed call. chat returns
\* the generator at line 47, before the update of lines 63-68, and
\* _stream_response only hands the list it was given to the model
StreamHistory(convs, cid, m, r) == convs

\* a call of AgentChat.chat with stream = true (lines 29, 45-53) and the
\* consumption of the generator it returns; the history is not touched
ChatStream(m, cid, ref) ==
    \E f \in StreamFaults, nTok \in 0..MaxTokens, nChunks \in 0..MaxChunks :
        LET fault == f.kind
            failAfter == f.after
            g1 == GetModel(Cache, max_cache_size, FishAgent, clock,
                           fault # "agent_load")
            c1 == [models |-> g1.models, last_used |-> g1.last_used]
            asked == /\ g1.outcome = "ok"
                     /\ fault \notin {"tokens", "collect"}
                     /\ HasAudio(ref)
            g2 == GetModel(c1, max_cache_size, FishSpeech, clock,
                           fault # "speech_load")
            c2 == IF asked THEN [models |-> g2.models, last_used |-> g2.last_used]
                  ELSE c1
        IN  /\ models' = c2.models
            /\ last_used' = c2.last_used
            /\ locks' = IF asked THEN LocksAfter(LocksAfter(locks, FishAgent), FishSpeech)
                        ELSE LocksAfter(locks, FishAgent)
            /\ ret' = IF g1.outcome # "ok"
                      THEN [op |-> "chat_stream", started |-> FALSE, code |-> 500,
                            ref |-> ref, tokens |-> 0, chunks |-> 0, fault |-> fault,
                            events |-> <<>>,
                            trace |-> StreamTrace(FALSE, ref, fault, FALSE)]
                      ELSE [op |-> "chat_stream", started |-> TRUE, code |-> 200,
                            ref |-> ref, tokens |-> nTok, chunks |-> nChunks,
                            fault |-> fault,
                            events |-> StreamEvents(nTok, nChunks, ref, fault,
                                                    failAfter,
                                                    asked /\ g2.outcome = "ok"),
                            trace |-> StreamTrace(TRUE, ref, fault,
                                                  asked /\ g2.outcome = "ok")]
    /\ conversations' = StreamHistory(conversations, cid, m, "r1")
    /\ UNCHANGED <<max_cache_size, clock, threadVars, rateVars, engine_conversations,
                   chat_log, engine_log, voiceVars, restVars>>

StreamNext ==
    \/ \E ref \in RefAudios : ChatStream("m1", "c1", ref)
    \/ SeqTick

StreamSpec == ServiceInit /\ [][StreamNext]_vars

\* streamed calls between non-streaming calls under the same conversation id
StreamHistoryNext ==
    \/ Chat("m1", "c1", NoAudio)
    \/ \E ref \in RefAudios : ChatStream("m2", "c1", ref)

StreamHistorySpec == ServiceInit /\ [][StreamHistoryNext]_vars

\* ------------------------------------------------------------------------
\* Speech service (custom/api/speech.py)
\* ------------------------------------------------------------------------
\* what may go wrong during generate_speech: the speech model does not load,
\* model.generate (or the encoding of its audio) raises
SpeechFaults == {"none", "speech_load", "generate"}

\* SpeechGenerator.generate_speech (lines 32-92): the HTTPException 400 of line
\* 57 is raised inside the try of line 36, whose handler (line 83) turns every
\* exception into the 500 of line 85; calls = model invocations made
GenerateSpeech(c, cap, t, ref, fault) ==
    LET g == GetModel(c, cap, FishSpeech, t, fault # "speech_load")
        c1 == [models |-> g.models, last_used |-> g.last_used]
    IN  IF g.outcome # "ok"
        THEN [cache |-> c1, code |-> 500, calls |-> 0, failure |-> "load"]
        ELSE IF HasAudio(ref) /\ ~B64DecodeOk(ref)
        THEN [cache |-> c1, code |-> 500, calls |-> 0, failure |-> "decode"]
        ELSE IF fault = "generate"
        THEN [cache |-> c1, code |-> 500, calls |-> 1, failure |-> "generate"]
        ELSE [cache |-> c1, code |-> 200, calls |-> 1, failure |-> "none"]

\* SpeechGenerator.batch_generate_speech (lines 94-159) on n requests; an item
\* whose reference audio does not decode is passed on as None (lines 120-124)
BatchGenerateSpeech(c, cap, t, n, size, agentOk, failChunk) ==
    LET g == GetModel(c, cap, FishSpeech, t, agentOk)
        c1 == [models |-> g.models, last_used |-> g.last_used]
        failing == failChunk >= 1 /\ failChunk <= NumChunks(n, size)
    IN  IF g.outcome # "ok"
        THEN [cache |-> c1, code |-> 500, calls |-> 0, results |-> 0]
        ELSE IF failing
        THEN [cache |-> c1, code |-> 500, calls |-> failChunk, results |-> 0]
        ELSE [cache |-> c1, code |-> 200, calls |-> NumChunks(n, size), results |-> n]

\* GenerateSpeechRequest (lines 11-17): the params of a speech request. A
\* text is empty, ordinary or longer than 2000 characters; speed is in tenths
NoSpeaker == "None"
NoEmotion == "None"
LongText == "long"
TextLen(t) == IF t = "" THEN 0 ELSE IF t = LongText THEN 2001 ELSE 2
Texts == {"t1", "t2"}
SpeechParams ==
    [text : Texts \cup {"", LongText}, reference_audio : RefAudios,
     speaker_id : {NoSpeaker, "v1"}, emotion : {NoEmotion, "happy", "angry"},
     speed : {4, 10, 21}]
HasSpeaker(sp) == sp # NoSpeaker /\ sp # ""

\* GenerateSpeechRequest(**params) succeeds: the Field constraints of lines
\* 12-17 hold. validate_voice_source (lines 19-26) is a plain classmethod, not
\* registered as a validator, and is not run by the constructor
SpeechRequestValid(p) ==
    /\ TextLen(p.text) >= 1 /\ TextLen(p.text) <= 2000
    /\ p.emotion \in {NoEmotion, "happy", "sad", "neutral"}
    /\ p.speed >= 5 /\ p.speed <= 20

\* building a request from params, then SpeechGenerator.generate_speech on it
GenerateSpeechCall(p) ==
    /\ IF ~SpeechRequestValid(p)
       THEN /\ ret' = [op |-> "generate_speech", params |-> p, constructed |-> FALSE,
                       asked |-> FALSE, calls |-> 0, code |-> 500,
                       failure |-> "validation"]
            /\ UNCHANGED <<models, last_used, locks>>
       ELSE \E fault \in SpeechFaults :
              \E r \in {GenerateSpeech(Cache, max_cache_size, clock, p.reference_audio,
                                       fault)} :
                 /\ models' = r.cache.models
                 /\ last_used' = r.cache.last_used
                 /\ locks' = LocksAfter(locks, FishSpeech)
                 /\ ret' = [op |-> "generate_speech", params |-> p,
                            constructed |-> TRUE, asked |-> TRUE, calls |-> r.calls,
                            code |-> r.code, failure |-> r.failure]
    /\ UNCHANGED <<max_cache_size, clock, threadVars, rateVars, chatVars, voiceVars, restVars>>

\* the items of a speech batch
SpeechItems ==
    {[text |-> "t1", reference_audio |-> GoodAudio, speaker_id |-> NoSpeaker],
     [text |-> "t2", reference_audio |-> BadAudio, speaker_id |-> NoSpeaker],
     [text |-> "t1", reference_audio |-> NoAudio, speaker_id |-> "v1"]}
SpeechBatches == UNION {[1..n -> SpeechItems] : n \in 0..MaxItems}
SpeechBatchSizes == 1..(MaxItems + 1)

\* (a variant whose chunks miss their last request)
ChunkOfShort(reqs, i, size) == SubSeq(reqs, i, Min(i + size - 2, Len(reqs)))
\* requests[i:i + batch_size] (line 110), i counted from 1
ChunkOf(reqs, i, size) == SubSeq(reqs, i, Min(i + size - 1, Len(reqs)))

\* lines 113-127: the three arrays handed to generate_batch for a chunk; an
\* item without reference audio, or whose audio does not decode, contributes
\* None
NoBytes == "None"
\* base64.b64decode (line 121) of a string it accepts: the bytes it encodes
B64Decode(ref) == IF ref = GoodAudio THEN "RIFF" ELSE ref
\* (a variant that hands an undecodable string on as it is)
ChunkInputsRaw(batch) ==
    [texts |-> [j \in 1..Len(batch) |-> batch[j].text],
     reference_audios |->
         [j \in 1..Len(batch) |->
             IF HasAudio(batch[j].reference_audio)
             THEN B64Decode(batch[j].reference_audio) ELSE NoBytes],
     speaker_ids |-> [j \in 1..Len(batch) |-> batch[j].speaker_id]]
ChunkInputs(batch) ==
    [texts |-> [j \in 1..Len(batch) |-> batch[j].text],
     reference_audios |->
         [j \in 1..Len(batch) |->
             IF HasAudio(batch[j].reference_audio) /\ B64DecodeOk(batch[j].reference_audio)
             THEN B64Decode(batch[j].reference_audio) ELSE NoBytes],
     speaker_ids |-> [j \in 1..Len(batch) |-> batch[j].speaker_id]]

\* model.generate_batch returning one audio per input, in input order: an audio
\* is known by the inputs it was made from
GenerateBatch(inp) ==
    [j \in 1..Len(inp.texts) |->
        <<inp.texts[j], inp.reference_audios[j], inp.speaker_ids[j]>>]

\* lines 138-147: zip(batch, audios)
ZipResults(batch, audios) ==
    [j \in 1..Min(Len(batch), Len(audios)) |->
        [text |-> batch[j].text, audio |-> audios[j]]]

\* lines 109-147: the results list built chunk by chunk, from request i on
RECURSIVE BatchSpeechResults(_, _, _, _)
BatchSpeechResults(reqs, size, i, results) ==
    IF i > Len(reqs) THEN results
    ELSE LET batch == ChunkOf(reqs, i, size)
         IN  BatchSpeechResults(reqs, size, i + size,
                                results \o ZipResults(batch,
                                                      GenerateBatch(ChunkInputs(batch))))

\* lines 109-135: the inputs of the successive generate_batch calls, from
\* request i on
RECURSIVE BatchModelCalls(_, _, _, _)
BatchModelCalls(reqs, size, i, calls) ==
    IF i > Len(reqs) THEN calls
    ELSE BatchModelCalls(reqs, size, i + size,
                         Append(calls, ChunkInputs(ChunkOf(reqs, i, size))))

\* what may go wrong during one speech batch
SpeechBatchFaults ==
    {[agentOk |-> FALSE, failChunk |-> 0]}
        \cup {[agentOk |-> TRUE, failChunk |-> k] : k \in 0..MaxItems}

\* a call of SpeechGenerator.batch_generate_speech
BatchGenerateSpeechCall(reqs, size) ==
    /\ \E f \in SpeechBatchFaults :
          \E r \in {BatchGenerateSpeech(Cache, max_cache_size, clock, Len(reqs), size,
                                        f.agentOk, f.failChunk)} :
             /\ models' = r.cache.models
             /\ last_used' = r.cache.last_used
             /\ locks' = LocksAfter(locks, FishSpeech)
             /\ ret' = [op |-> "batch_generate_speech", reqs |-> reqs, size |-> size,
                        code |-> r.code, calls |-> r.calls,
                        inputs |-> SubSeq(BatchModelCalls(reqs, size, 1, <<>>),
                                          1, r.calls),
                        results |-> IF r.code = 200
                                    THEN BatchSpeechResults(reqs, size, 1, <<>>)
                                    ELSE <<>>]
    /\ UNCHANGED <<max_cache_size, clock, threadVars, rateVars, chatVars, voiceVars, restVars>>

\* the speech service called directly
SpeechNext ==
    \/ \E p \in SpeechParams : GenerateSpeechCall(p)
    \/ \E reqs \in SpeechBatches, size \in SpeechBatchSizes :
          BatchGenerateSpeechCall(reqs, size)

SpeechSpec == ServiceInit /\ [][SpeechNext]_vars

\* ------------------------------------------------------------------------
\* Voice store (custom/api/voice.py)
\* ------------------------------------------------------------------------
\* voice_%Y%m%d_%H%M%S (line 64): one id per second of the clock
VoiceId(t) == t
VoiceIds == {VoiceId(t) : t \in 0..MaxClock}
VoiceNames == {"n1", "n2"}
VoiceStore == [voices |-> voices, meta_files |-> meta_files, emb_files |-> emb_files]

\* what may go wrong during clone_voice: the speech model does not load,
\* extract_voice_embeddings raises, torch.save raises (before or after the file
\* was created), the metadata file cannot be opened, json.dump raises after the
\* file was created
CloneFaults ==
    {"none", "speech_load", "extract", "save_embedding", "save_embedding_partial",
     "open_metadata", "dump_metadata"}

\* the content of a metadata file: what json.dump wrote (lines 71-82), or a file
\* that json.load rejects because json.dump stopped part-way
NoVoiceName == "-"
VoiceData(id, name) == [id |-> id, name |-> name, valid |-> TRUE]
PartialFile(id) == [id |-> id, name |-> NoVoiceName, valid |-> FALSE]
WriteFile(files, id, content) == (id :> content) @@ files
Unlink(files, id) == [v \in DOMAIN files \ {id} |-> files[v]]

\* (a variant that adds the profile to the map before it writes the metadata file)
CloneVoiceMapFirst(vs, c, cap, t, ref, name, fault) ==
    LET g == GetModel(c, cap, FishSpeech, t, fault # "speech_load")
        c1 == [models |-> g.models, last_used |-> g.last_used]
        id == VoiceId(t)
        seen == (id :> [id |-> id, name |-> name]) @@ vs.voices
        failed(store, n) == [cache |-> c1, store |-> store, code |-> 500, calls |-> n,
                             voice_id |-> id]
    IN  IF g.outcome # "ok" THEN failed(vs, 0)
        ELSE IF ~B64DecodeOk(ref) THEN failed(vs, 0)
        ELSE IF fault = "extract" THEN failed(vs, 1)
        ELSE IF fault = "save_embedding" THEN failed(vs, 1)
        ELSE IF fault = "save_embedding_partial"
        THEN failed([vs EXCEPT !.emb_files = @ \cup {id}], 1)
        ELSE IF fault = "open_metadata"
        THEN failed([vs EXCEPT !.emb_files = @ \cup {id}, !.voices = seen], 1)
        ELSE IF fault = "dump_metadata"
        THEN failed([vs EXCEPT !.emb_files = @ \cup {id}, !.voices = seen,
                               !.meta_files = WriteFile(@, id, PartialFile(id))], 1)
        ELSE [cache |-> c1,
              store |-> [voices |-> seen,
                         meta_files |-> WriteFile(vs.meta_files, id, VoiceData(id, name)),
                         emb_files |-> vs.emb_files \cup {id}],
              code |-> 200, calls |-> 1, voice_id |-> id]

\* Voice.clone_voice (lines 41-102)
CloneVoice(vs, c, cap, t, ref, name, fault) ==
    LET g == GetModel(c, cap, FishSpeech, t, fault # "speech_load")
        c1 == [models |-> g.models, last_used |-> g.last_used]
        id == VoiceId(t)
        failed(store, n) == [cache |-> c1, store |-> store, code |-> 500, calls |-> n,
                             voice_id |-> id]
    IN  IF g.outcome # "ok" THEN failed(vs, 0)
        ELSE IF ~B64DecodeOk(ref) THEN failed(vs, 0)
        ELSE IF fault = "extract" THEN failed(vs, 1)
        ELSE IF fault = "save_embedding" THEN failed(vs, 1)
        ELSE IF fault = "save_embedding_partial"
        THEN failed([vs EXCEPT !.emb_files = @ \cup {id}], 1)
        ELSE IF fault = "open_metadata"
        THEN failed([vs EXCEPT !.emb_files = @ \cup {id}], 1)
        ELSE IF fault = "dump_metadata"
        THEN failed([vs EXCEPT !.emb_files = @ \cup {id},
                               !.meta_files = WriteFile(@, id, PartialFile(id))], 1)
        ELSE [cache |-> c1,
              store |-> [voices |-> (id :> [id |-> id, name |-> name]) @@ vs.voices,
                         meta_files |-> WriteFile(vs.meta_files, id, VoiceData(id, name)),
                         emb_files |-> vs.emb_files \cup {id}],
              code |-> 200, calls |-> 1, voice_id |-> id]

\* Voice.get_voice (lines 104-114)
GetVoice(vs, id) ==
    IF id \notin DOMAIN vs.voices THEN [code |-> 404, profile |-> <<>>]
    ELSE [code |-> 200, profile |-> vs.voices[id]]

\* Voice.list_voices (lines 116-120)
ListVoices(vs) == {vs.voices[id] : id \in DOMAIN vs.voices}

\* what may go wrong during delete_voice: unlinking a file raises
DeleteFaults == {"none", "unlink_embedding", "unlink_metadata"}

\* (a variant that forgets the profile and leaves its files in place)
DeleteVoiceKeepFiles(vs, id, fault) ==
    IF id \notin DOMAIN vs.voices THEN [store |-> vs, code |-> 404]
    ELSE [store |-> [vs EXCEPT !.voices = [v \in DOMAIN vs.voices \ {id} |-> vs.voices[v]]],
          code |-> 200]

\* Voice.delete_voice (lines 122-157)
DeleteVoice(vs, id, fault) ==
    IF id \notin DOMAIN vs.voices THEN [store |-> vs, code |-> 404]
    ELSE IF fault = "unlink_embedding" /\ id \in vs.emb_files
    THEN [store |-> vs, code |-> 500]
    ELSE IF fault = "unlink_metadata" /\ id \in DOMAIN vs.meta_files
    THEN [store |-> [vs EXCEPT !.emb_files = @ \ {id}], code |-> 500]
    ELSE [store |-> [voices |-> [v \in DOMAIN vs.voices \ {id} |-> vs.voices[v]],
                     meta_files |-> Unlink(vs.meta_files, id),
                     emb_files |-> vs.emb_files \ {id}],
          code |-> 200]

\* Voice.get_voice_embeddings (lines 159-183); readable: torch.load reads the file
GetVoiceEmbeddings(vs, id, readable) ==
    IF id \notin DOMAIN vs.voices THEN [code |-> 404]
    ELSE IF id \notin vs.emb_files THEN [code |-> 500]
    ELSE IF ~readable THEN [code |-> 500]
    ELSE [code |-> 200]

\* Voice._load_voices (lines 27-39): the metadata files that json.load accepts,
\* keyed by the id they contain
LoadVoices(files) ==
    LET good == {f \in DOMAIN files : files[f].valid}
    IN  [v \in {files[f].id : f \in good} |->
            LET f == CHOOSE f \in good : files[f].id = v
            IN  [id |-> files[f].id, name |-> files[f].name]]

\* the process starts again over the same voices directory: the module-level
\* objects are constructed anew (handler.py lines 17-21, Voice.__init__ lines 21-25)
Construct ==
    /\ voices' = LoadVoices(meta_files)
    /\ models' = {}
    /\ last_used' = << >>
    /\ locks' = [n \in ModelNames |-> NoLock]
    /\ conversations' = << >>
    /\ ret' = [op |-> "construct"]
    /\ UNCHANGED <<max_cache_size, clock, threadVars, rateVars, engine_conversations,
                   chat_log, engine_log, meta_files, emb_files, restVars>>

\* a call of clone_voice
CloneVoiceCall(ref, name) ==
    \E f \in CloneFaults :
        \E r \in {CloneVoice(VoiceStore, Cache, max_cache_size, clock, ref, name, f)} :
            /\ models' = r.cache.models
            /\ last_used' = r.cache.last_used
            /\ locks' = LocksAfter(locks, FishSpeech)
            /\ voices' = r.store.voices
            /\ meta_files' = r.store.meta_files
            /\ emb_files' = r.store.emb_files
            /\ ret' = [op |-> "clone_voice", name |-> name, voice_id |-> r.voice_id,
                       code |-> r.code, calls |-> r.calls]
            /\ UNCHANGED <<max_cache_size, clock, threadVars, rateVars, chatVars,
                           restVars>>

\* a call of delete_voice
DeleteVoiceCall(id) ==
    \E f \in DeleteFaults :
        \E r \in {DeleteVoice(VoiceStore, id, f)} :
            /\ voices' = r.store.voices
            /\ meta_files' = r.store.meta_files
            /\ emb_files' = r.store.emb_files
            /\ ret' = [op |-> "delete_voice", name |-> NoVoiceName, voice_id |-> id,
                       code |-> r.code, calls |-> 0]
            /\ UNCHANGED <<mmVars, rateVars, chatVars, restVars>>

\* calls of get_voice, get_voice_embeddings and list_voices
GetVoiceCall(id) ==
    /\ ret' = [op |-> "get_voice", voice_id |-> id, result |-> GetVoice(VoiceStore, id)]
    /\ UNCHANGED <<mmVars, rateVars, chatVars, voiceVars, restVars>>

GetVoiceEmbeddingsCall(id) ==
    /\ \E readable \in BOOLEAN :
          ret' = [op |-> "get_voice_embeddings", voice_id |-> id,
                  result |-> GetVoiceEmbeddings(VoiceStore, id, readable)]
    /\ UNCHANGED <<mmVars, rateVars, chatVars, voiceVars, restVars>>

ListVoicesCall ==
    /\ ret' = [op |-> "list_voices", result |-> ListVoices(VoiceStore)]
    /\ UNCHANGED <<mmVars, rateVars, chatVars, voiceVars, restVars>>

VoiceNext ==
    \/ \E ref \in {GoodAudio, BadAudio}, name \in VoiceNames : CloneVoiceCall(ref, name)
    \/ \E id \in VoiceIds : DeleteVoiceCall(id)
    \/ \E id \in VoiceIds : GetVoiceCall(id)
    \/ \E id \in VoiceIds : GetVoiceEmbeddingsCall(id)
    \/ ListVoicesCall
    \/ Construct
    \/ SeqTick

VoiceSpec == ServiceInit /\ [][VoiceNext]_vars

\* ------------------------------------------------------------------------
\* Job dispatcher (custom/handler.py)
\* ------------------------------------------------------------------------
Endpoints ==
    {"generate_speech", "batch_generate_speech", "agent_chat", "batch_agent_chat",
     "clone_voice", "list_voices", "get_voice", "delete_voice"}
\* input.endpoint: one of the eight, absent, or some other text
NoEndpoint == "None"
JobEndpoints == Endpoints \cup {NoEndpoint, "speech"}
\* params.voice_id: an id, or absent
NoVoiceId == "None"

\* what _route_request leaves behind and returns: the cache, the locks dict,
\* the chat history (and its record), the voice store, the status code (200:
\* it returned), the number of model invocations made
\* and, when it raised, the class of the exception and what its detail says
NoDetail == <<"-", "-">>
Routed(c, lk, convs, log, vs, code, calls) ==
    [models |-> c.models, last_used |-> c.last_used, locks |-> lk,
     conversations |-> convs, chat_log |-> log, store |-> vs, code |-> code,
     calls |-> calls,
     raised |-> IF code = 200 THEN "none" ELSE "HTTPException",
     detail |-> NoDetail]

\* (a variant that answers every endpoint name)
RouteRequestLenient(endpoint, msgs, ids) ==
    {Routed(Cache, locks, conversations, chat_log, VoiceStore, 200, 0)}
\* RunPodHandler._route_request (lines 86-140): the outcomes it can have in the
\* current state for an endpoint, over the params drawn from msgs and ids and
\* over the faults of the model boundary. Params that violate the request
\* schema make the request constructor raise (lines 95, 99, 106, 110, 118),
\* which handler reports with code 500 (lines 75-84)
RouteRequest(endpoint, msgs, ids) ==
    LET cap == max_cache_size
        same(code) == Routed(Cache, locks, conversations, chat_log, VoiceStore, code, 0)
        \* pydantic's ValidationError: not an HTTPException, it carries no code
        invalid == [same(500) EXCEPT !.raised = "ValidationError"]
        speech(r) == Routed(r.cache, LocksAfter(locks, FishSpeech), conversations,
                            chat_log, VoiceStore, r.code, r.calls)
    IN  CASE endpoint = "generate_speech" ->
               {invalid} \cup
               {speech(GenerateSpeech(Cache, cap, clock, ref, f)) :
                    ref \in RefAudios, f \in SpeechFaults}
          [] endpoint = "batch_generate_speech" ->
               {invalid} \cup
               {speech(BatchGenerateSpeech(Cache, cap, clock, n, size, f.agentOk,
                                           f.failChunk)) :
                    n \in 0..MaxBatch, size \in BatchSizes, f \in BatchFaults}
          [] endpoint = "agent_chat" ->
               {invalid} \cup
               {LET r == ChatResult(conversations, Cache, cap, clock, x.m, x.cid, x.ref,
                                    x.r, x.f)
                IN  Routed(r.cache, ChatLocks(locks, r), r.conversations,
                           IF r.generated THEN Logged(chat_log, x.cid, x.m, x.r)
                           ELSE chat_log,
                           VoiceStore, r.code, r.calls) :
                    x \in [m : msgs, cid : ids, ref : RefAudios, r : Replies,
                           f : ChatFaults]} \cup
               \* stream = true: the generator is returned unconsumed (line 55)
               {LET g == GetModel(Cache, cap, FishAgent, clock, ok)
                IN  Routed([models |-> g.models, last_used |-> g.last_used],
                           LocksAfter(locks, FishAgent), conversations, chat_log,
                           VoiceStore, IF g.outcome = "ok" THEN 200 ELSE 500, 0) :
                    ok \in BOOLEAN}
          [] endpoint = "batch_agent_chat" ->
               {invalid} \cup
               UNION {{LET r == BatchChatResult(conversations, Cache, cap, clock, reqs,
                                                size, replies, f.agentOk, f.failChunk)
                       IN  Routed(r.cache, LocksAfter(locks, FishAgent), r.conversations,
                                  BatchLogged(chat_log, reqs, replies, 1, r.processed),
                                  VoiceStore, r.code, r.calls) :
                           replies \in [1..Len(reqs) -> Replies], size \in BatchSizes,
                           f \in BatchFaults} :
                      reqs \in UNION {[1..n -> [message : msgs, conversation_id : ids]] :
                                        n \in 0..MaxBatch}}
          [] endpoint = "clone_voice" ->
               {invalid} \cup
               {LET r == CloneVoice(VoiceStore, Cache, cap, clock, ref, name, f)
                IN  Routed(r.cache, LocksAfter(locks, FishSpeech), conversations,
                           chat_log, r.store, r.code, r.calls) :
                    ref \in {GoodAudio, BadAudio}, name \in VoiceNames, f \in CloneFaults}
          [] endpoint = "list_voices" -> {same(200)}
          [] endpoint = "get_voice" ->
               {same(400)} \cup {same(GetVoice(VoiceStore, id).code) : id \in VoiceIds}
          [] endpoint = "delete_voice" ->
               {same(400)} \cup
               {LET r == DeleteVoice(VoiceStore, id, f)
                IN  Routed(Cache, locks, conversations, chat_log, r.store, r.code, 0) :
                    id \in VoiceIds, f \in DeleteFaults}
          [] OTHER -> {[same(404) EXCEPT !.detail = <<"Unknown endpoint", endpoint>>]}

\* event.get('id', 'unknown') (line 35)
NoJobId == "None"
JobIds == {"job-1", NoJobId}
JobId(id) == IF id = NoJobId THEN "unknown" ELSE id

\* (a variant that authenticates before it looks at the input)
HandlerGateAuthFirst(hasInput, reqs, api_key, t) ==
    LET a == AuthenticateRequest(reqs, api_key, "default", t)
    IN  IF a.code # 200
        THEN [code |-> a.code, requests |-> a.requests, auth_called |-> TRUE]
        ELSE IF ~hasInput
        THEN [code |-> 400, requests |-> a.requests, auth_called |-> TRUE]
        ELSE [code |-> 200, requests |-> a.requests, auth_called |-> TRUE]
\* lines 38-52 of handler: the input check, then authenticate_request
HandlerGate(hasInput, reqs, api_key, t) ==
    IF ~hasInput
    THEN [code |-> 400, requests |-> reqs, auth_called |-> FALSE]
    ELSE LET a == AuthenticateRequest(reqs, api_key, "default", t)
         IN  [code |-> a.code, requests |-> a.requests, auth_called |-> TRUE]

\* (a variant that reports every failure with code 500 and drops the job id)
EnvelopeFlat(id, raised, code) ==
    IF raised = "none"
    THEN [id |-> JobId(id), status |-> "success", code |-> 200, output |-> TRUE,
          error_body |-> FALSE]
    ELSE [id |-> "unknown", status |-> "error", code |-> 500, output |-> FALSE,
          error_body |-> TRUE]
\* the envelope handler returns (lines 57-84) for a job with this id whose
\* processing returned, raised an HTTPException with this code, or raised
\* another exception
Envelope(id, raised, code) ==
    IF raised = "none"
    THEN [id |-> JobId(id), status |-> "success", code |-> 200, output |-> TRUE,
          error_body |-> FALSE]
    ELSE IF raised = "HTTPException"
    THEN [id |-> JobId(id), status |-> "error", code |-> code, output |-> FALSE,
          error_body |-> TRUE]
    ELSE [id |-> JobId(id), status |-> "error", code |-> 500, output |-> FALSE,
          error_body |-> TRUE]

\* RunPodHandler.handler (lines 30-84) on a job: event.id, input present and
\* non-empty or not, and input.api_key and input.endpoint
Handler(id, hasInput, api_key, endpoint, msgs, ids) ==
    LET result(raised, code, routed, calls, g, detail) ==
            LET e == Envelope(id, raised, code)
            IN  [op |-> "handler", job_id |-> id, has_input |-> hasInput,
                 api_key |-> api_key, endpoint |-> endpoint, id |-> e.id,
                 status |-> e.status, code |-> e.code, output |-> e.output,
                 error_body |-> e.error_body, raised |-> raised, detail |-> detail,
                 auth_called |-> g.auth_called, routed |-> routed, calls |-> calls]
    IN  /\ endpoint \in {"agent_chat", "batch_agent_chat"} => Rounds + MaxBatch <= MaxRounds
        /\ \E g \in {HandlerGate(hasInput, requests, api_key, clock)} :
              /\ requests' = g.requests
              /\ IF g.code # 200
                 THEN /\ ret' = result("HTTPException", g.code, FALSE, 0, g, NoDetail)
                      /\ UNCHANGED <<models, last_used, locks, conversations, chat_log,
                                     voiceVars, admitted, tier_admitted>>
                      /\ rejected' = Reject(rejected, api_key, g.code = 429, TRUE)
                 ELSE \E r \in RouteRequest(endpoint, msgs, ids) :
                        /\ admitted' = IF api_key \in RateKeys
                                       THEN Admit(admitted, api_key, clock, TRUE)
                                       ELSE admitted
                        /\ tier_admitted' = AdmitTier(tier_admitted, api_key,
                                                      "default", clock, TRUE)
                        /\ rejected' = Reject(rejected, api_key, TRUE, FALSE)
                        /\ models' = r.models
                        /\ last_used' = r.last_used
                        /\ locks' = r.locks
                        /\ conversations' = r.conversations
                        /\ chat_log' = r.chat_log
                        /\ voices' = r.store.voices
                        /\ meta_files' = r.store.meta_files
                        /\ emb_files' = r.store.emb_files
                        /\ ret' = result(r.raised, r.code, TRUE, r.calls, g, r.detail)
        /\ UNCHANGED <<max_cache_size, clock, threadVars, engine_conversations,
                       engine_log, restVars>>

\* jobs sent to the dispatcher, one after the other: without an input, or with
\* an input that names a key and an endpoint
DispatchMessages == {"m1"}
DispatchKeys == {NoKey, "wrong-key", API_KEY}
DispatchNext ==
    \/ Handler("job-1", FALSE, NoKey, NoEndpoint, DispatchMessages, ChatIds)
    \/ \E api_key \in DispatchKeys, endpoint \in JobEndpoints :
          Handler("job-1", TRUE, api_key, endpoint, DispatchMessages, ChatIds)

DispatchSpec == ServiceInit /\ [][DispatchNext]_vars

\* jobs with and without an id, whose chat requests name no conversation
EnvelopeNext ==
    \/ \E id \in JobIds : Handler(id, FALSE, NoKey, NoEndpoint, DispatchMessages, {NoId})
    \/ \E id \in JobIds, api_key \in ApiKeys, endpoint \in JobEndpoints :
          Handler(id, TRUE, api_key, endpoint, DispatchMessages, {NoId})

EnvelopeSpec == ServiceInit /\ [][EnvelopeNext]_vars

\* ------------------------------------------------------------------------
\* End-to-end agent handler (runpod/handler.py)
\* ------------------------------------------------------------------------
\* _AGENT = None (line 59) is 0; an instance is named by the number of the
\* attempt that made it
NoAgent == 0

\* (a variant that constructs an agent on every call)
GetAgentEager(agent, log, ok) ==
    IF ok
    THEN [AGENT |-> Len(log) + 1, constructions |-> Append(log, "ok"),
          returned |-> Len(log) + 1]
    ELSE [AGENT |-> agent, constructions |-> Append(log, "failed"),
          returned |-> agent]
\* get_agent (lines 61-82): the singleton and the attempts after the call, and
\* the value returned; ok: FishE2EAgent() returns (the health check of lines
\* 68-73 only logs)
GetAgent(agent, log, ok) ==
    IF agent = NoAgent
    THEN IF ok
         THEN [AGENT |-> Len(log) + 1, constructions |-> Append(log, "ok"),
               returned |-> Len(log) + 1]
         ELSE [AGENT |-> NoAgent, constructions |-> Append(log, "failed"),
               returned |-> NoAgent]
    ELSE [AGENT |-> agent, constructions |-> log, returned |-> agent]

\* a call of get_agent
GetAgentCall ==
    /\ AGENT # NoAgent \/ Len(constructions) < MaxConstructions
    /\ \E ok \in BOOLEAN :
          \E g \in {GetAgent(AGENT, constructions, ok)} :
              /\ AGENT' = g.AGENT
              /\ constructions' = g.constructions
              /\ ret' = [op |-> "get_agent", returned |-> g.returned]
    /\ UNCHANGED <<mmVars, rateVars, chatVars, voiceVars, callVars, scopeVars>>

\* input.message and input.system_message of a job
E2EMessages == {"m1", "", NoMessage}
SystemMessages == {"sys", NoMessage}

\* process_request (lines 85-216): the envelope without the id; segments: the
\* text segments the agent streams, hasSpeech: whether a speech segment comes
\* with them, streamOk: agent.stream ends without raising
ProcessRequest(agent, m, sys, segments, hasSpeech, streamOk) ==
    IF agent = NoAgent
    THEN [status |-> "error", error |-> "Failed to initialize FishE2EAgent",
          text |-> 0, history |-> 0, audio |-> FALSE, streamed |-> FALSE]
    ELSE IF ~HasMessage(m)
    THEN [status |-> "error", error |-> "No message provided in the input",
          text |-> 0, history |-> 0, audio |-> FALSE, streamed |-> FALSE]
    ELSE IF ~streamOk
    THEN [status |-> "error", error |-> "stream", text |-> 0, history |-> 0,
          audio |-> FALSE, streamed |-> TRUE]
    ELSE [status |-> "success", error |-> "", text |-> segments,
          history |-> (IF HasMessage(sys) THEN 3 ELSE 2), audio |-> hasSpeech,
          streamed |-> TRUE]

\* a call of process_request
ProcessRequestCall(m, sys) ==
    /\ AGENT # NoAgent \/ Len(constructions) < MaxConstructions
    /\ \E ok \in BOOLEAN, segments \in 0..MaxSegments, hasSpeech \in BOOLEAN,
          streamOk \in BOOLEAN :
          \E g \in {GetAgent(AGENT, constructions, ok)} :
              /\ AGENT' = g.AGENT
              /\ constructions' = g.constructions
              /\ ret' = [op |-> "process_request", returned |-> g.returned,
                         message |-> m, system_message |-> sys,
                         result |-> ProcessRequest(g.returned, m, sys, segments,
                                                   hasSpeech, streamOk)]
    /\ UNCHANGED <<mmVars, rateVars, chatVars, voiceVars, callVars, scopeVars>>

\* handler (lines 219-255) for one job: a job without input is answered at once,
\* any other goes through process_request
E2EHandler(id, hasInput, m, sys) ==
    /\ AGENT # NoAgent \/ Len(constructions) < MaxConstructions
    /\ IF ~hasInput
       THEN /\ ret' = [op |-> "e2e_handler", id |-> EngineJobId(id),
                       has_input |-> FALSE, status |-> "error"]
            /\ UNCHANGED e2eVars
       ELSE \E ok \in BOOLEAN, segments \in 0..MaxSegments, hasSpeech \in BOOLEAN,
               streamOk \in BOOLEAN :
               \E g \in {GetAgent(AGENT, constructions, ok)} :
                   /\ AGENT' = g.AGENT
                   /\ constructions' = g.constructions
                   /\ ret' = [op |-> "e2e_handler", id |-> EngineJobId(id),
                              has_input |-> TRUE, returned |-> g.returned,
                              status |-> ProcessRequest(g.returned, m, sys, segments,
                                                        hasSpeech, streamOk).status,
                              text |-> ProcessRequest(g.returned, m, sys, segments,
                                                      hasSpeech, streamOk).text]
    /\ UNCHANGED <<mmVars, rateVars, chatVars, voiceVars, callVars, scopeVars>>

E2ENext ==
    \/ GetAgentCall
    \/ \E m \in E2EMessages, sys \in SystemMessages : ProcessRequestCall(m, sys)
    \/ \E id \in EngineJobIds, hasInput \in BOOLEAN, m \in E2EMessages :
          E2EHandler(id, hasInput, m, NoMessage)

E2ESpec == ServiceInit /\ [][E2ENext]_vars

\* ------------------------------------------------------------------------
\* ASGI adapter (handler.py)
\* ------------------------------------------------------------------------
\* bytes and the characters they encode in UTF-8: 97 is "a", 195 169 is one
\* character
RECURSIVE Decode(_)
Decode(bytes) ==
    IF bytes = <<>> THEN <<>>
    ELSE IF bytes[1] = 97 THEN <<"a">> \o Decode(Tail(bytes))
    ELSE <<"e-acute">> \o Decode(Tail(Tail(bytes)))

\* the pieces a service sends its body in
BodyChunks == {<<>>, <<97>>, <<195, 169>>}
\* the header lists of a response start: none, one header, the same header twice
HeaderLists ==
    {<<>>,
     <<<<"content-type", "application/json">>>>,
     <<<<"set-cookie", "a=1">>, <<"set-cookie", "b=2">>>>}
StartMessages ==
    {[type |-> "http.response.start", status |-> st, headers |-> h] :
        st \in {200, 404}, h \in HeaderLists}
BodyMessage(chunk) == [type |-> "http.response.body", body |-> chunk]
BodySeqs ==
    UNION {[1..n -> {BodyMessage(c) : c \in BodyChunks}] : n \in 1..MaxBodyMessages}
\* what the service sends during one request cycle
AppMessages == {<<st>> \o bodies : st \in StartMessages, bodies \in BodySeqs}

\* the dict built from a list of pairs (lines 49-52): a later pair replaces an
\* earlier one with the same key
RECURSIVE DictOf(_)
DictOf(pairs) ==
    IF pairs = <<>> THEN << >>
    ELSE LET front == DictOf(SubSeq(pairs, 1, Len(pairs) - 1))
             last == pairs[Len(pairs)]
         IN  (last[1] :> last[2]) @@ front

\* response before the first message (lines 40-44)
InitialResponse == [statusCode |-> 500, headers |-> << >>, body |-> <<>>]

\* (a variant that appends each body message to what it has captured so far)
SendAppending(response, message) ==
    IF message.type = "http.response.start"
    THEN [response EXCEPT !.statusCode = message.status,
                          !.headers = DictOf(message.headers)]
    ELSE IF message.type = "http.response.body"
    THEN [response EXCEPT !.body = @ \o Decode(message.body)]
    ELSE response
\* send (lines 46-54): the response after one message
Send(response, message) ==
    IF message.type = "http.response.start"
    THEN [response EXCEPT !.statusCode = message.status,
                          !.headers = DictOf(message.headers)]
    ELSE IF message.type = "http.response.body"
    THEN [response EXCEPT !.body = Decode(message.body)]
    ELSE response

\* await app(scope, receive, send) (line 57): send is called with each message
\* in turn
RECURSIVE Capture(_, _)
Capture(response, msgs) ==
    IF msgs = <<>> THEN response
    ELSE Capture(Send(response, Head(msgs)), Tail(msgs))

\* the response of the except branch (lines 61-66)
AdapterError == [statusCode |-> 500, body |-> <<"error">>]

\* handler (lines 14-66) for one event; wellFormed: the event has httpMethod and
\* path and its headers and query string are strings; appRaises: the service
\* raises after the messages it sent
AdapterHandler(wellFormed, msgs, appRaises) ==
    /\ ret' = [op |-> "adapter", well_formed |-> wellFormed,
               messages |-> IF wellFormed THEN msgs ELSE <<>>,
               app_raised |-> wellFormed /\ appRaises,
               response |-> IF wellFormed /\ ~appRaises
                            THEN Capture(InitialResponse, msgs)
                            ELSE AdapterError]
    /\ UNCHANGED <<mmVars, rateVars, chatVars, voiceVars, restVars>>

AdapterNext ==
    \/ \E msgs \in AppMessages : AdapterHandler(TRUE, msgs, FALSE)
    \/ \E msgs \in AppMessages : AdapterHandler(TRUE, msgs, TRUE)
    \/ AdapterHandler(FALSE, <<>>, FALSE)

AdapterSpec == ServiceInit /\ [][AdapterNext]_vars

\* ------------------------------------------------------------------------
\* Scoped autocast (fish_speech/utils/context.py)
\* ------------------------------------------------------------------------
\* autocast_enabled is torch's autocast state of the running thread; scope is
\* the position of a `with autocast_exclude_mps(device_type, enabled):` block
DeviceTypes == {"mps", "cuda", "cpu"}
MaxOps == 3
Outside == [phase |-> "outside"]

\* lines 12-15: the object the generator yields. For mps a nullcontext; for any
\* other device a torch.autocast object, which is constructed and yielded but
\* never entered: only torch.autocast.__enter__ changes the autocast state
Yielded(device_type) == IF device_type = "mps" THEN "nullcontext" ELSE "autocast"

\* other code switching autocast on or off while no scope is open
OuterAutocast(b) ==
    /\ scope.phase # "body"
    /\ autocast_enabled' = b
    /\ scope' = Outside
    /\ UNCHANGED <<ret, mmVars, rateVars, chatVars, voiceVars, e2eVars, callVars>>

\* __enter__ of the context manager: the generator runs to its yield
ScopeEnter(device_type, enabled) ==
    /\ scope.phase # "body"
    /\ scope' = [phase |-> "body", device_type |-> device_type, enabled |-> enabled,
                 yielded |-> Yielded(device_type), prior |-> autocast_enabled,
                 ops |-> <<>>]
    /\ UNCHANGED autocast_enabled
    /\ UNCHANGED <<ret, mmVars, rateVars, chatVars, voiceVars, e2eVars, callVars>>

\* one computation of the body, run under the autocast state of the moment
ScopeOp ==
    /\ scope.phase = "body"
    /\ Len(scope.ops) < MaxOps
    /\ scope' = [scope EXCEPT !.ops = Append(@, autocast_enabled)]
    /\ UNCHANGED autocast_enabled
    /\ UNCHANGED <<ret, mmVars, rateVars, chatVars, voiceVars, e2eVars, callVars>>

\* __exit__ of the context manager: the generator is resumed and ends (normal
\* exit), or the body's exception is thrown into it at the yield and
\* propagates; the generator has no code after the yield
ScopeExit(raised) ==
    /\ scope.phase = "body"
    /\ scope' = [scope EXCEPT !.phase = IF raised THEN "raised" ELSE "exited"]
    /\ UNCHANGED autocast_enabled
    /\ UNCHANGED <<ret, mmVars, rateVars, chatVars, voiceVars, e2eVars, callVars>>

ScopeNext ==
    \/ \E b \in BOOLEAN : OuterAutocast(b)
    \/ \E d \in DeviceTypes, e \in BOOLEAN : ScopeEnter(d, e)
    \/ ScopeOp
    \/ ScopeExit(FALSE)
    \/ ScopeExit(TRUE)

ScopeSpec == ServiceInit /\ [][ScopeNext]_vars

\* C1: the number of cached models never exceeds max_cache_size, whatever the
\* interleaving of concurrent get_model calls
C1_CacheBound == Cardinality(models) <= max_cache_size

\* C2: concurrent get_model calls for one and the same name, from an empty
\* cache: the loader of that name completes at most once
C2_SameNameLoadsOnce == \A n \in Loadable : loads[n] <= 1

\* C3: in sequential use, a get_model that misses while the cache holds
\* max_cache_size entries removes exactly one entry, the one with the smallest
\* last-used timestamp, before the new model is inserted; every other entry
\* remains; and a get_model for a name that is not cached (an evicted one
\* included) runs the loader again
RetIsMissAtCapacity ==
    /\ ret.op = "get_model"
    /\ ret.name \notin ret.pre.models
    /\ Cardinality(ret.pre.models) >= max_cache_size
C3_LruEviction ==
    /\ RetIsMissAtCapacity =>
          \E v \in ret.pre.models :
             /\ ret.evicted = {v}
             /\ \A m \in ret.pre.models :
                   LuGet(ret.pre.last_used, v) <= LuGet(ret.pre.last_used, m)
             /\ models = (ret.pre.models \ {v})
                            \cup (IF ret.outcome = "ok" THEN {ret.name} ELSE {})
             /\ LuKeys(last_used) = models
    /\ (ret.op = "get_model" /\ ret.name \notin ret.pre.models) => ret.loader_ran
\* capacity 2, both models cached, fish-speech used again later: the miss removed
\* fish-agent, the entry used least recently although inserted last
C3_Witness ==
    /\ RetIsMissAtCapacity
    /\ max_cache_size = 2
    /\ ret.evicted = {FishAgent}
    /\ ret.pre.last_used[1].name = FishSpeech
    /\ models = {FishSpeech}
\* capacity 1: fish-speech was evicted for fish-agent, and is loaded again
C3_WitnessReload ==
    /\ RetIsMissAtCapacity
    /\ max_cache_size = 1
    /\ ret.name = FishSpeech
    /\ ret.evicted = {FishAgent}
    /\ ret.loader_ran
    /\ models = {FishSpeech}

\* C33: when get_model raises (unknown name, checkpoint that does not load), the
\* cached models and their last-used timestamps are those of before the call:
\* nothing is evicted on behalf of a load that fails.
C33_FailedLoadLeavesCache ==
    (ret.op = "get_model" /\ ret.outcome # "ok") =>
        /\ ret.evicted = {}
        /\ models = ret.pre.models
        /\ last_used = ret.pre.last_used

\* the last call consulted the rate limiter: is_rate_limited itself, or
\* authenticate_request with a key that verifies
RetIsRateCheck ==
    \/ ret.op = "is_rate_limited"
    \/ ret.op = "authenticate_request" /\ VerifyApiKey(ret.key)
RetLimited == IF ret.op = "is_rate_limited" THEN ret.limited ELSE ret.code = 429
RetAdmitted == IF ret.op = "is_rate_limited" THEN ~ret.limited ELSE ret.code = 200
\* the key's list before the call, and its entries younger than the tier window
RetPre == IF ret.key \in DOMAIN ret.pre THEN ret.pre[ret.key] ELSE <<>>
RetYoung == SelectSeq(RetPre, LAMBDA r : ret.at - r < RateLimits[ret.tier].window)
Occurrences(seq, x) == Cardinality({i \in 1..Len(seq) : seq[i] = x})

\* C4: on the default tier, a call that follows 10 calls admitted in the last
\* 60 seconds is rejected (429 from authenticate_request), and a call made when
\* 60 seconds or more have passed since the oldest recorded call, or when fewer
\* than 10 calls were admitted in the last 60 seconds, is admitted
C4_RateWindow ==
    (RetIsRateCheck /\ ret.tier = "default") =>
        /\ Len(ret.recent) >= 10 => RetLimited
        /\ Len(ret.recent) < 10 => RetAdmitted
        /\ (RetPre # <<>> /\ ret.at - RetPre[1] >= 60) => RetAdmitted
\* the 11th call, 59 seconds after the first, is answered 429
C4_Witness ==
    /\ ret.op = "authenticate_request"
    /\ ret.code = 429
    /\ Len(RetPre) = 10
    /\ RetPre[1] = 0
    /\ ret.at = 59
\* the window was full, and the call made 60 seconds after the first is admitted
C4_WitnessReadmit ==
    /\ ret.op = "authenticate_request"
    /\ ret.code = 200
    /\ Len(RetPre) = 10
    /\ RetPre[1] = 0
    /\ ret.at = 60

\* C31: a rejected is_rate_limited call appends no timestamp: the timestamps
\* recorded for a key within the window are those of its admitted calls only,
\* and a key is admitted as soon as fewer than 10 admitted calls are younger
\* than the window, however many of its calls were rejected since its last
\* admission.
C31_RejectedNotRecorded ==
    /\ \A k \in RateKeys \cap DOMAIN requests :
          SelectSeq(requests[k], LAMBDA r : clock - r < WindowLength) = admitted[k]
    /\ (RetIsRateCheck /\ ret.tier = "default") =>
          /\ RetLimited =>
                Occurrences(requests[ret.key], ret.at) = Occurrences(RetPre, ret.at)
          /\ (ret.rejected > 0 /\ Len(ret.recent) < 10) => RetAdmitted
\* ten calls admitted at time 0, two or more calls rejected before time 60, and
\* the call at time 60 is admitted
C31_Witness ==
    /\ RetIsRateCheck
    /\ RetAdmitted
    /\ ret.rejected = 2
    /\ Len(RetPre) = 10
    /\ RetPre[1] = 0 /\ RetPre[10] = 0
    /\ ret.at = 60
    /\ requests[ret.key] = <<60>>

\* C32: for every request list and batch_size, the history map after a
\* successful batch_chat equals the map after non-streaming chat was called on
\* the same requests one by one in list order with the same replies, also when
\* items of one batch share a conversation id.
C32_BatchMatchesChat ==
    [][(ret'.op = "batch_chat" /\ ret'.code = 200) =>
          conversations' = ChatSequence(conversations, Cache, max_cache_size, clock,
                                        ret'.reqs, ret'.replies, 1)]_vars
\* a batch of two items under c1 handled by one model call, on a history of c1
\* that already holds a round: both pairs are appended, in list order
C32_Witness ==
    /\ ret.op = "batch_chat"
    /\ ret.code = 200
    /\ ret.size = 4
    /\ Len(ret.reqs) = 2
    /\ ret.reqs[1].conversation_id = "c1" /\ ret.reqs[2].conversation_id = "c1"
    /\ ret.reqs[1].message = "m1" /\ ret.reqs[2].message = "m2"
    /\ "c1" \in DOMAIN conversations
    /\ Len(conversations["c1"]) = 6
    /\ conversations["c1"][3] = UserMsg("m1")
    /\ conversations["c1"][5] = UserMsg("m2")
\* a batch whose items go to two ids and to none
C32_WitnessMixed ==
    /\ ret.op = "batch_chat"
    /\ ret.code = 200
    /\ Len(ret.reqs) = 2
    /\ ret.reqs[1].conversation_id = "c2" /\ ret.reqs[2].conversation_id = NoId
    /\ DOMAIN conversations = {"c1", "c2"}

\* C5: after an is_rate_limited call every timestamp kept for the key is younger
\* than the tier window; the call is admitted only if fewer timestamps than the
\* ceiling were retained, and then appends exactly the current time; and the
\* number of calls admitted for a key in the trailing window never exceeds the
\* ceiling of the one tier in use
C5_AdmissionInvariant ==
    /\ RetIsRateCheck =>
          /\ \A i \in 1..Len(requests[ret.key]) :
                ret.at - requests[ret.key][i] < RateLimits[ret.tier].window
          /\ RetAdmitted =>
                /\ Len(RetYoung) < RateLimits[ret.tier].calls
                /\ requests[ret.key] = Append(RetYoung, ret.at)
          /\ RetLimited => requests[ret.key] = RetYoung
          /\ RetAdmitted \/ RetLimited
    /\ \A k \in RateKeys : Len(admitted[k]) <= RateLimits["default"].calls
\* an admitted call that dropped an entry grown old and appended the current time
C5_Witness ==
    /\ RetIsRateCheck
    /\ RetAdmitted
    /\ Len(RetPre) = 10
    /\ Len(RetYoung) = 9
    /\ Len(requests[ret.key]) = 10
    /\ Len(admitted[ret.key]) = 10

C6_Witness401 ==
    /\ ret.op = "authenticate_request"
    /\ ret.key = "wrong-key"
    /\ ret.code = 401
    /\ requests # << >>


\* the last ten elements of a sequence (all of it when it has at most ten)
LastTenOf(log) ==
    [i \in 1..(IF Len(log) < 10 THEN Len(log) ELSE 10) |->
        log[i + (IF Len(log) < 10 THEN 0 ELSE Len(log) - 10)]]

\* C7: after any sequence of completed non-streaming chat calls (chat,
\* batch_chat, the engine-bound handler), the history stored under each
\* conversation id has at most 10 messages and is the last 10 of everything
\* appended under that id, in append order.
C7_Truncation ==
    \A cid \in ConvIds :
        /\ Len(GetConversation(conversations, cid)) <= 10
        /\ GetConversation(conversations, cid) = LastTenOf(chat_log[cid])
        /\ Len(GetConversation(engine_conversations, cid)) <= 10
        /\ GetConversation(engine_conversations, cid) = LastTenOf(engine_log[cid])

\* six rounds (12 messages) under one id: 10 are stored, and the oldest one that
\* was appended is no longer the first stored one
C7_Witness ==
    /\ Len(chat_log["c1"]) = 12
    /\ "c1" \in DOMAIN conversations
    /\ Len(conversations["c1"]) = 10
    /\ conversations["c1"][1] = chat_log["c1"][3]
    /\ chat_log["c1"][1] # chat_log["c1"][3]

\* the same in the store of the engine-bound handler
C7_WitnessEngine ==
    /\ Len(engine_log["c1"]) = 12
    /\ "c1" \in DOMAIN engine_conversations
    /\ Len(engine_conversations["c1"]) = 10
    /\ engine_conversations["c1"][1] = engine_log["c1"][3]
    /\ engine_log["c1"][1] # engine_log["c1"][3]

\* a batch that failed at its second model call after committing the history of
\* its first chunk
C7_WitnessBatchPartial ==
    /\ ret.op = "batch_chat"
    /\ ret.status = "error"
    /\ ret.count = 2
    /\ ret.processed = 1
    /\ Len(chat_log["c1"]) >= 2

\* C9: a non-streaming chat call with reference audio whose text generation
\* succeeded and whose speech synthesis failed returns partial_success with the
\* generated text and an error explanation; the text is not discarded.
C9_PartialSuccess ==
    (/\ ret.op = "chat"
     /\ ret.generated
     /\ ret.synthesis \in {"load_failed", "decode_failed", "generate_failed"})
        => (/\ ret.status = "partial_success"
            /\ ret.text = ret.reply
            /\ ret.error # "")

\* the part of C9 that the inner try block covers: failures of the decoding of
\* the reference audio and of speech_model.generate
C9_InnerTry ==
    (/\ ret.op = "chat"
     /\ ret.generated
     /\ ret.synthesis \in {"decode_failed", "generate_failed"})
        => (/\ ret.status = "partial_success"
            /\ ret.text = ret.reply
            /\ ret.error # "")


Terminal(e) == e.status \in {"complete", "error"}
CountOf(ev, st) == Cardinality({i \in 1..Len(ev) : ev[i].status = st})

\* C8: every event sequence of a streamed response that is consumed to its end
\* has exactly one terminal event, and it is the last event: complete (only
\* after all the token events and, with reference audio, all the audio-chunk
\* events) or error, wherever the model boundary fails.
C8_StreamTermination ==
    (ret.op = "chat_stream" /\ ret.started) =>
        LET ev == ret.events
        IN  /\ Len(ev) >= 1
            /\ Terminal(ev[Len(ev)])
            /\ \A i \in 1..(Len(ev) - 1) : ~Terminal(ev[i])
            /\ ev[Len(ev)].status = "complete" =>
                  /\ CountOf(ev, "streaming") = ret.tokens
                  /\ CountOf(ev, "streaming_audio")
                        = IF HasAudio(ret.ref) THEN ret.chunks ELSE 0
                  /\ \A i, j \in 1..Len(ev) :
                        (ev[i].status = "streaming" /\ ev[j].status = "streaming_audio")
                            => i < j

\* a stream that failed while the audio chunks were produced, after all its
\* tokens and one chunk: it ends with the one error event
C8_Witness ==
    /\ ret.op = "chat_stream"
    /\ ret.started
    /\ ret.fault = "chunks"
    /\ ret.tokens = 2
    /\ CountOf(ret.events, "streaming_audio") = 1
    /\ ret.events[Len(ret.events)].status = "error"

\* a stream with reference audio that completed after two tokens and two chunks
C8_WitnessComplete ==
    /\ ret.op = "chat_stream"
    /\ ret.started
    /\ HasAudio(ret.ref)
    /\ Len(ret.events) = 5
    /\ ret.events[5].status = "complete"


\* the job that ended last went to the dispatcher with an input whose key fails
\* verification, or whose key had used up its calls of the current window
JobKeyFails == ret'.op = "handler" /\ ret'.has_input /\ ~VerifyApiKey(ret'.api_key)
JobKeyLimited ==
    /\ ret'.op = "handler"
    /\ ret'.has_input
    /\ VerifyApiKey(ret'.api_key)
    /\ Len(admitted[ret'.api_key]) >= RateLimits["default"].calls

C10_Witness401 ==
    /\ ret.op = "handler"
    /\ ret.code = 401
    /\ ret.endpoint = "agent_chat"
    /\ ~ret.routed
    /\ models = {}
    /\ API_KEY \in DOMAIN requests


\* C11: a job whose input is absent or empty returns an error envelope with
\* code 400 without reaching authentication: authenticate_request is not
\* called and the timestamps the rate limiter recorded are unchanged.
C11_EmptyInputShortCircuit ==
    [][(ret'.op = "handler" /\ ~ret'.has_input) =>
          /\ ret'.status = "error"
          /\ ret'.error_body
          /\ ret'.code = 400
          /\ ~ret'.auth_called
          /\ ~ret'.routed
          /\ UNCHANGED <<requests, admitted, tier_admitted>>]_vars

\* a job without input was turned away with 400 while the limiter holds
\* timestamps of earlier jobs
C11_Witness ==
    /\ ret.op = "handler"
    /\ ~ret.has_input
    /\ ret.code = 400
    /\ API_KEY \in DOMAIN requests
    /\ Len(requests[API_KEY]) >= 2

\* C12: an authenticated, non-rate-limited job whose endpoint is not one of the
\* eight known names returns an error envelope with code 404 whose detail names
\* the endpoint, and no service operation is performed (no model load, no
\* generation, no change to the chat history or the voice store).
C12_UnknownEndpoint ==
    [][(ret'.op = "handler" /\ ret'.routed /\ ret'.endpoint \notin Endpoints) =>
          /\ ret'.status = "error"
          /\ ret'.code = 404
          /\ ret'.detail = <<"Unknown endpoint", ret'.endpoint>>
          /\ ret'.calls = 0
          /\ UNCHANGED <<models, last_used, locks, chatVars, voiceVars, restVars>>]_vars

\* a job for an unknown endpoint got 404 on a service that has both models
\* cached and a voice in its store
C12_Witness ==
    /\ ret.op = "handler"
    /\ ret.routed
    /\ ret.endpoint = "speech"
    /\ ret.code = 404
    /\ models = Loadable
    /\ DOMAIN voices # {}

\* the same for a job that names no endpoint
C12_WitnessAbsent ==
    /\ ret.op = "handler"
    /\ ret.routed
    /\ ret.endpoint = NoEndpoint
    /\ ret.code = 404

\* C13: for every job the dispatcher's handler returns an envelope that carries
\* the job's id ('unknown' if absent) and either status success with an output,
\* or status error with an error body; failures of the input check, of
\* authentication and of dispatch keep their own code, and a failure that is
\* not an HTTPException has code 500.
C13_EnvelopeTotality ==
    ret.op = "handler" =>
        /\ ret.id = (IF ret.job_id = NoJobId THEN "unknown" ELSE ret.job_id)
        /\ \/ ret.status = "success" /\ ret.output /\ ~ret.error_body
           \/ ret.status = "error" /\ ret.error_body /\ ~ret.output
        /\ ret.status = "success" <=> ret.raised = "none"
        /\ ~ret.has_input => ret.code = 400
        /\ (ret.has_input /\ ~VerifyApiKey(ret.api_key)) => ret.code = 401
        /\ (ret.auth_called /\ ~ret.routed) => ret.code \in {401, 429}
        /\ (ret.routed /\ ret.endpoint \notin Endpoints) => ret.code = 404
        /\ (ret.routed /\ ret.endpoint \in {"get_voice", "delete_voice"}
              /\ ret.status = "error") => ret.code \in {400, 404, 500}
        /\ ret.raised \notin {"none", "HTTPException"} => ret.code = 500

\* a job without an id whose params made the request constructor raise: the
\* envelope has id 'unknown' and code 500
C13_Witness ==
    /\ ret.op = "handler"
    /\ ret.job_id = NoJobId
    /\ ret.id = "unknown"
    /\ ret.raised = "ValidationError"
    /\ ret.code = 500

\* a job with an id that was turned away by the rate limiter
C13_Witness429 ==
    /\ ret.op = "handler"
    /\ ret.job_id = "job-1"
    /\ ret.id = "job-1"
    /\ ret.code = 429

\* C16: an authenticated job whose params violate the request schema of its
\* endpoint is rejected before any model call, and its error envelope carries
\* code 400.
C16_SchemaViolation400 ==
    (ret.op = "handler" /\ ret.raised = "ValidationError") =>
        (ret.calls = 0 /\ ret.code = 400)

\* the part of C16 that holds: such a job makes no model call
C16_NoModelCall ==
    (ret.op = "handler" /\ ret.raised = "ValidationError") => ret.calls = 0


\* C14: a speech request with neither reference_audio nor speaker_id is
\* rejected before any model call: building the request and calling
\* generate_speech never reaches get_model('fish-speech') or model.generate.
C14_VoiceSourceRequired ==
    (/\ ret.op = "generate_speech"
     /\ ~HasAudio(ret.params.reference_audio)
     /\ ~HasSpeaker(ret.params.speaker_id))
        => (~ret.asked /\ ret.calls = 0)

\* C15: when reference_audio cannot be base64-decoded, generate_speech (and
\* clone_voice) fail with code 400, not with code 500.
C15_BadBase64Is400 ==
    (ret.op = "generate_speech" /\ ret.failure = "decode") => ret.code = 400

\* C17: when every batched model call returns one audio per input in input
\* order, batch_generate_speech returns as many results as there are requests,
\* and result i carries the text of request i and the audio made from request
\* i, however the list is chunked.
C17_BatchOrder ==
    (ret.op = "batch_generate_speech" /\ ret.code = 200) =>
        /\ Len(ret.results) = Len(ret.reqs)
        /\ \A i \in 1..Len(ret.reqs) :
              /\ ret.results[i].text = ret.reqs[i].text
              /\ ret.results[i].audio[1] = ret.reqs[i].text
              /\ ret.results[i].audio[3] = ret.reqs[i].speaker_id

\* the batch [t1, t2, t1] with batch_size 2: two model calls, three results
C17_Witness ==
    /\ ret.op = "batch_generate_speech"
    /\ ret.code = 200
    /\ ret.size = 2
    /\ ret.calls = 2
    /\ Len(ret.reqs) = 3
    /\ ret.reqs[1].text = "t1" /\ ret.reqs[2].text = "t2" /\ ret.reqs[3].text = "t1"
    /\ Len(ret.results) = 3

\* C28: in batch_generate_speech an item whose reference_audio cannot be
\* base64-decoded (or that has none) contributes None at its own position of the
\* reference-audio array and the batch goes on; in every batched model call the
\* texts, reference-audio and speaker-id arrays have the length of the chunk,
\* and entry j of each belongs to request j of the chunk.
C28_DecodeMarker ==
    ret.op = "batch_generate_speech" =>
      /\ ret.code = 200 => Len(ret.inputs) = NumChunks(Len(ret.reqs), ret.size)
      /\ \A k \in 1..Len(ret.inputs) :
            LET inp == ret.inputs[k]
                first == (k - 1) * ret.size
                n == Min(ret.size, Len(ret.reqs) - first)
            IN  /\ n >= 1
                /\ Len(inp.texts) = n
                /\ Len(inp.reference_audios) = n
                /\ Len(inp.speaker_ids) = n
                /\ \A j \in 1..n :
                      LET req == ret.reqs[first + j]
                      IN  /\ inp.texts[j] = req.text
                          /\ inp.speaker_ids[j] = req.speaker_id
                          /\ inp.reference_audios[j] =
                                IF req.reference_audio = GoodAudio
                                THEN "RIFF" ELSE NoBytes

\* the batch [good, bad, good] in chunks of 2: the first model call gets the
\* bytes of item 1 and None for item 2, the second call the bytes of item 3,
\* and three results come back
C28_Witness ==
    /\ ret.op = "batch_generate_speech"
    /\ ret.code = 200
    /\ ret.size = 2
    /\ Len(ret.reqs) = 3
    /\ ret.reqs[1].reference_audio = GoodAudio
    /\ ret.reqs[2].reference_audio = BadAudio
    /\ ret.reqs[3].reference_audio = GoodAudio
    /\ Len(ret.inputs) = 2
    /\ ret.inputs[1].reference_audios = <<"RIFF", NoBytes>>
    /\ ret.inputs[2].reference_audios = <<"RIFF">>
    /\ Len(ret.results) = 3

\* C29: for every device kind other than mps, mixed precision is enabled while
\* the body of an autocast_exclude_mps scope (entered with enabled = True)
\* executes, and the prior state is restored when the scope exits, normally or
\* because the body raised; for mps the state is unchanged throughout.
C29_ScopedAutocast ==
    /\ (scope.phase = "body" /\ scope.device_type # "mps" /\ scope.enabled)
           => /\ autocast_enabled
              /\ \A i \in 1..Len(scope.ops) : scope.ops[i]
    /\ scope.phase \in {"exited", "raised"} => autocast_enabled = scope.prior
    /\ (scope.phase # "outside" /\ scope.device_type = "mps")
           => /\ autocast_enabled = scope.prior
              /\ \A i \in 1..Len(scope.ops) : scope.ops[i] = scope.prior

\* what the code does keep: within and after a scope the autocast state is the
\* one found on entry, for every device kind
C29_StateUntouched ==
    scope.phase # "outside" =>
        /\ autocast_enabled = scope.prior
        /\ \A i \in 1..Len(scope.ops) : scope.ops[i] = scope.prior

\* the positions of the events of one status, in order of appearance
RECURSIVE NumbersOf(_, _)
NumbersOf(ev, st) ==
    IF ev = <<>> THEN <<>>
    ELSE IF Head(ev).status = st THEN <<Head(ev).n>> \o NumbersOf(Tail(ev), st)
    ELSE NumbersOf(Tail(ev), st)

\* C30: in every event sequence of _stream_response the token events appear in
\* the order the model produced them (token 1, token 2, ...), no token event
\* follows a streaming_audio event, and streaming_audio events appear only when
\* reference audio was supplied and only after the whole token stream.
C30_StreamOrder ==
    (ret.op = "chat_stream" /\ ret.started) =>
        LET ev == ret.events
            toks == NumbersOf(ev, "streaming")
        IN  /\ Len(toks) <= ret.tokens
            /\ \A i \in 1..Len(toks) : toks[i] = i
            /\ \A i, j \in 1..Len(ev) :
                  (ev[i].status = "streaming_audio" /\ i < j)
                      => ev[j].status # "streaming"
            /\ CountOf(ev, "streaming_audio") > 0 =>
                  /\ HasAudio(ret.ref)
                  /\ Len(toks) = ret.tokens
            /\ NumbersOf(ev, "streaming_audio")
                  = [i \in 1..CountOf(ev, "streaming_audio") |-> i]

\* two tokens, then the one audio chunk, then complete
C30_Witness ==
    /\ ret.op = "chat_stream"
    /\ ret.started
    /\ ret.ref = GoodAudio
    /\ ret.events = TokenEvents(2) \o AudioEvents(1) \o <<CompleteEvent>>

\* without reference audio no audio event appears, though the speech model
\* would have had chunks to give
C30_WitnessNoAudio ==
    /\ ret.op = "chat_stream"
    /\ ret.started
    /\ ret.ref = NoAudio
    /\ ret.chunks = 2
    /\ ret.events = TokenEvents(2) \o <<CompleteEvent>>

\* C18: after a successful clone_voice with name n that returned id v, get_voice(v)
\* returns the profile with id v and name n and get_voice_embeddings(v) succeeds
\* when the embedding file can be read; after a successful delete_voice(v),
\* get_voice(v) and get_voice_embeddings(v) fail with 404, v is not among
\* list_voices, and neither <v>.json nor <v>.pt exists in the voices directory.
C18_RoundTrip ==
    /\ (ret.op = "clone_voice" /\ ret.code = 200) =>
          /\ GetVoice(VoiceStore, ret.voice_id)
                = [code |-> 200, profile |-> [id |-> ret.voice_id, name |-> ret.name]]
          /\ GetVoiceEmbeddings(VoiceStore, ret.voice_id, TRUE).code = 200
    /\ (ret.op = "delete_voice" /\ ret.code = 200) =>
          /\ GetVoice(VoiceStore, ret.voice_id).code = 404
          /\ \A readable \in BOOLEAN :
                GetVoiceEmbeddings(VoiceStore, ret.voice_id, readable).code = 404
          /\ \A p \in ListVoices(VoiceStore) : p.id # ret.voice_id
          /\ ret.voice_id \notin DOMAIN meta_files
          /\ ret.voice_id \notin emb_files

\* a voice was deleted while another voice is still stored
C18_Witness ==
    /\ ret.op = "delete_voice" /\ ret.code = 200
    /\ voices # << >>

\* a second voice was cloned under its own name
C18_WitnessClone ==
    /\ ret.op = "clone_voice" /\ ret.code = 200 /\ ret.name = "n2"
    /\ Cardinality(DOMAIN voices) = 2

\* C19: in every state reached through construction, clone_voice and delete_voice,
\* the calls that fail part-way included, every id of the in-memory voices map has
\* its metadata file in the voices directory.
C19_StoreInvariant == \A id \in DOMAIN voices : id \in DOMAIN meta_files

\* a profile is in the map while a later clone_voice for the same id failed after
\* it had opened the metadata file
C19_Witness ==
    /\ ret.op = "clone_voice" /\ ret.code = 500
    /\ ret.voice_id \in DOMAIN voices
    /\ ~meta_files[ret.voice_id].valid

\* the map was loaded again from the metadata files
C19_WitnessConstruct ==
    /\ ret.op = "construct"
    /\ voices # << >>
    /\ DOMAIN voices # DOMAIN meta_files

\* C20: on every inference path clear_gpu_cache is called after the last model
\* invocation of that path; stated here for the streaming chat path, where the
\* model is invoked while the returned event sequence is consumed.
C20_CleanupAfterInference ==
    ret.op = "chat_stream" =>
        \A i \in 1..Len(ret.trace) :
            ret.trace[i] = "model" =>
                \E j \in (i+1)..Len(ret.trace) : ret.trace[j] = "clear"

\* the lock thread t is blocked on or about to take, and the locks it holds
WaitsFor(t) ==
    IF pc[t] = "acquire" THEN mylock[t]
    ELSE IF pc[t] = "evict_acquire" THEN evlock[t]
    ELSE NoLock
Holds(t, l) ==
    /\ l # NoLock
    /\ \/ /\ l = mylock[t]
          /\ pc[t] \in {"check_model", "cleanup", "evict_lock", "evict_acquire",
                        "evict_models", "evict_last_used", "load", "store", "touch",
                        "return"}
       \/ /\ l = evlock[t]
          /\ pc[t] \in {"evict_models", "evict_last_used"}

\* C21: a caller of get_model(a) never waits for a lock that a caller of
\* get_model(b) holds when a # b, in any interleaving, the eviction of b on
\* behalf of a included.
C21_Independence ==
    \A t \in Threads, u \in Threads :
        (t # u /\ model_name[t] # model_name[u]) => ~Holds(u, WaitsFor(t))

\* C34: no reachable state of concurrent get_model calls has a cycle of callers
\* waiting on each other's locks (a caller that waits for a lock it holds itself
\* included), so every call returns or raises.
C34_NoWaitCycle ==
    \A t \in Threads, u \in Threads :
        ~(Holds(u, WaitsFor(t)) /\ Holds(t, WaitsFor(u)))

\* C35: under every interleaving _cleanup_cache never fails: when it finds the
\* cache at capacity, last_used is not empty, and the entry it selected is still
\* in models and in last_used when it comes to delete it.
C35_EvictionRaceFree ==
    \A t \in Threads :
        /\ (pc[t] = "cleanup" /\ CacheFull(models, max_cache_size)) => last_used # <<>>
        /\ pc[t] = "evict_models" => lru_model[t] \in models
        /\ pc[t] = "evict_last_used" => lru_model[t] \in LuKeys(last_used)

\* C36: whenever a non-streaming chat call reports failure (AgentChat.chat ends
\* with the 500 error, the engine-bound handler returns status error), the
\* stored histories are those of before the call.
C36_ErrorLeavesHistory ==
    [][/\ (ret'.op = "chat" /\ ret'.code = 500) => conversations' = conversations
       /\ (ret'.op = "engine" /\ ret'.status = "error")
             => engine_conversations' = engine_conversations]_vars

\* C37: a chat call with stream = true, and the complete consumption of the
\* events it returns, leave the history of every conversation id as it was, the
\* id of the request included; what is stored stays the last ten of what the
\* non-streaming calls appended.
C37_StreamKeepsHistory ==
    /\ [][ret'.op = "chat_stream" => conversations' = conversations]_vars
    /\ [](\A cid \in ConvIds :
             GetConversation(conversations, cid) = LastTenOf(chat_log[cid]))
\* a streamed call under c1 that ran to its complete event while c1 held the
\* round of an earlier non-streaming call
C37_Witness ==
    /\ ret.op = "chat_stream"
    /\ ret.started
    /\ ret.tokens = 2
    /\ ret.events[Len(ret.events)].status = "complete"
    /\ "c1" \in DOMAIN conversations
    /\ conversations["c1"] = <<UserMsg("m1"), AssistantMsg("r1")>>

\* the history stored under cid is the same before and after the step, and so
\* is the presence of cid in the map
SameHistory(before, after, cid) ==
    /\ GetConversation(before, cid) = GetConversation(after, cid)
    /\ cid \in DOMAIN before <=> cid \in DOMAIN after

\* C38: a chat call, batch item or engine-bound job with conversation id c
\* changes the stored history of c only (a step changes the history of an id
\* only if one of its requests appended a round under that id), and a request
\* without id (absent or empty) changes no history and creates no entry.
C38_Isolation ==
    [][/\ \A c \in ConvIds :
             /\ chat_log'[c] = chat_log[c] => SameHistory(conversations, conversations', c)
             /\ engine_log'[c] = engine_log[c]
                   => SameHistory(engine_conversations, engine_conversations', c)
       /\ DOMAIN conversations' \subseteq ConvIds
       /\ DOMAIN engine_conversations' \subseteq ConvIds
       /\ (chat_log' = chat_log /\ engine_log' = engine_log)
             => /\ conversations' = conversations
                /\ engine_conversations' = engine_conversations]_vars
\* a batch with one item under c2 and one without id, while c1 holds one round:
\* c2 got its round, c1 still holds its one round, no other entry exists
C38_Witness ==
    /\ ret.op = "batch_chat"
    /\ ret.code = 200
    /\ ret.count = 2
    /\ ret.reqs[1].conversation_id = "c2"
    /\ ret.reqs[2].conversation_id = NoId
    /\ DOMAIN conversations = {"c1", "c2"}
    /\ Len(conversations["c1"]) = 2
    /\ Len(conversations["c2"]) = 2
\* an engine-bound job with the empty id after a job under c1
C38_WitnessEngine ==
    /\ ret.op = "engine"
    /\ ret.status = "success"
    /\ DOMAIN engine_conversations = {"c1"}
    /\ Len(engine_log["c1"]) = 2
    /\ conversations = << >>

\* C39: every successful clone_voice returns an id that no stored profile has,
\* and leaves the metadata and the embedding of every earlier profile as they
\* were, also when two clones complete within the same clock second.
C39_CloneNeverOverwrites ==
    [][(ret'.op = "clone_voice" /\ ret'.code = 200 /\ clock' = clock) =>
          /\ ret'.voice_id \notin DOMAIN voices
          /\ \A id \in DOMAIN voices :
                /\ id \in DOMAIN voices' /\ voices'[id] = voices[id]
                /\ id \in DOMAIN meta_files
                      => (id \in DOMAIN meta_files' /\ meta_files'[id] = meta_files[id])
          /\ Cardinality(DOMAIN voices') = Cardinality(DOMAIN voices) + 1]_vars

\* C22: get_remaining_calls leaves every key's recorded timestamps as they
\* were and returns max(0, ceiling - number of the key's timestamps younger than
\* the tier window), the full ceiling for a key never seen; an is_rate_limited
\* call that follows has the outcome it would have had without the inquiry.
C22_RemainingDoesNotConsume ==
    ret.op = "get_remaining_calls" =>
        /\ requests = ret.pre
        /\ ret.remaining >= 0
        /\ ret.remaining = (IF RateLimits[ret.tier].calls - Len(RetYoung) > 0
                            THEN RateLimits[ret.tier].calls - Len(RetYoung) ELSE 0)
        /\ ret.key \notin DOMAIN ret.pre => ret.remaining = RateLimits[ret.tier].calls
        /\ \A k \in RateKeys, tier \in Tiers :
              IsRateLimited(requests, k, tier, clock)
                  = IsRateLimited(ret.pre, k, tier, clock)

\* an inquiry under the default tier while more calls than its ceiling are on
\* record: the answer is 0
C22_Witness ==
    /\ ret.op = "get_remaining_calls"
    /\ ret.tier = "default"
    /\ Len(RetYoung) > 10
    /\ ret.remaining = 0

\* an inquiry while all the calls on record have grown old
C22_WitnessOld ==
    /\ ret.op = "get_remaining_calls"
    /\ ret.tier = "default"
    /\ Len(RetPre) = 3
    /\ RetYoung = <<>>
    /\ ret.remaining = 10

\* an inquiry for a key never seen
C22_WitnessUnseen ==
    /\ ret.op = "get_remaining_calls"
    /\ ret.key = "other-key"
    /\ ret.tier = "premium"
    /\ ret.remaining = 100
    /\ requests # << >>

\* C23: the limiter counts per key and per tier: a call is rejected under a tier
\* only when the calls admitted for the key under that same tier fill its window.
C23_TierScoped ==
    (RetIsRateCheck /\ RetLimited) =>
        Len(ret.recent_tier) >= RateLimits[ret.tier].calls

\* the complete body a service emitted: its body messages joined in order
RECURSIVE EmittedBody(_)
EmittedBody(msgs) ==
    IF msgs = <<>> THEN <<>>
    ELSE IF Head(msgs).type = "http.response.body"
    THEN Head(msgs).body \o EmittedBody(Tail(msgs))
    ELSE EmittedBody(Tail(msgs))

\* C24: after the service's request cycle the adapter returns the status code and
\* the headers of the http.response.start message and, as body, all the
\* http.response.body messages joined in order, also when the body came in
\* several messages.
C24_AdapterCapture ==
    (ret.op = "adapter" /\ ret.well_formed /\ ~ret.app_raised) =>
        /\ ret.response.statusCode = ret.messages[1].status
        /\ \A i \in 1..Len(ret.messages[1].headers) :
              LET h == ret.messages[1].headers[i]
              IN  h[1] \in DOMAIN ret.response.headers
        /\ ret.response.body = Decode(EmittedBody(ret.messages))

\* the part of C24 the adapter keeps: status code and header names of the start
\* message, and the whole body when it came in one message
C24_SingleMessage ==
    (ret.op = "adapter" /\ ret.well_formed /\ ~ret.app_raised) =>
        /\ ret.response.statusCode = ret.messages[1].status
        /\ Len(ret.messages) = 2 =>
              ret.response.body = Decode(EmittedBody(ret.messages))

\* C25: for every job the engine-bound handler returns an envelope with the
\* job's id ('unknown' when it has none) and status success or error; a job whose
\* input or message is missing or empty gets status error, no generation call is
\* made for it and the stored conversations stay as they were; and the cache
\* cleanup is the last thing that happens on every path.
C25_EngineTotality ==
    [][ret'.op = "engine" =>
          /\ ret'.id = (IF ret'.job_id = "None" THEN "unknown" ELSE ret'.job_id)
          /\ ret'.status \in {"success", "error"}
          /\ (~ret'.has_input \/ ret'.message \in {"None", ""}) =>
                /\ ret'.status = "error"
                /\ ~ret'.generated
                /\ \A i \in 1..Len(ret'.trace) : ret'.trace[i] # "model"
                /\ UNCHANGED <<engine_conversations, engine_log>>
          /\ ret'.trace # <<>>
          /\ ret'.trace[Len(ret'.trace)] = "clear"
          /\ \A i \in 1..(Len(ret'.trace) - 1) : ret'.trace[i] = "model"]_vars

\* a job with an empty message was answered with an error while a conversation
\* is stored
C25_Witness ==
    /\ ret.op = "engine"
    /\ ret.has_input
    /\ ret.message = ""
    /\ ret.status = "error"
    /\ ret.id = "unknown"
    /\ engine_conversations # << >>

\* a job without input, with an id
C25_WitnessNoInput ==
    /\ ret.op = "engine"
    /\ ~ret.has_input
    /\ ret.status = "error"
    /\ ret.id = "job-1"
    /\ engine_conversations # << >>

\* C26: over any sequence of get_agent calls (process_request makes one), a call
\* whose construction fails leaves the singleton unset and returns no agent, and
\* the next call constructs again; once a construction has succeeded every later
\* call returns that instance and nothing is constructed any more.
C26_LazySingleton ==
    [][(\/ ret'.op \in {"get_agent", "process_request"}
        \/ ret'.op = "e2e_handler" /\ ret'.has_input) =>
          /\ AGENT # NoAgent =>
                /\ AGENT' = AGENT
                /\ constructions' = constructions
                /\ ret'.returned = AGENT
          /\ AGENT = NoAgent =>
                /\ Len(constructions') = Len(constructions) + 1
                /\ SubSeq(constructions', 1, Len(constructions)) = constructions
                /\ constructions'[Len(constructions')] = "failed" =>
                      (AGENT' = NoAgent /\ ret'.returned = NoAgent)
                /\ constructions'[Len(constructions')] = "ok" =>
                      (AGENT' # NoAgent /\ ret'.returned = AGENT')
          /\ \A i \in 1..(Len(constructions') - 1) : constructions'[i] = "failed"]_vars

\* the first construction failed, the second succeeded, and a later request was
\* served by that agent
C26_Witness ==
    /\ constructions = <<"failed", "ok">>
    /\ AGENT = 2
    /\ ret.op = "process_request"
    /\ ret.returned = 2
    /\ ret.result.status = "success"

\* a request found no agent because the construction failed again
C26_WitnessUnset ==
    /\ constructions = <<"failed", "failed">>
    /\ AGENT = NoAgent
    /\ ret.op = "process_request"
    /\ ret.result.error = "Failed to initialize FishE2EAgent"

\* C27: concurrent non-streaming chat calls under one conversation id lose
\* updates: a call that read the history while the id was not stored writes back
\* its own pair alone, whatever other calls stored meanwhile; a call that no
\* other call overlapped (none wrote between its read and its write) stores the
\* last ten of the history it read followed by its pair.
C27_LostUpdate ==
    (ret.op = "chat_call" /\ ret.code = 200) =>
        /\ ret.fresh =>
              conversations["c1"]
                  = <<UserMsg(CallMessage(ret.thread)), AssistantMsg("r1")>>
        /\ ret.seen = Len(chat_log["c1"]) - 2 =>
              conversations["c1"]
                  = LastTenOf(ret.read \o <<UserMsg(CallMessage(ret.thread)),
                                            AssistantMsg("r1")>>)

\* both calls read the history before either wrote it back, both have ended, and
\* the stored history lacks the pair of the call that ended first
C27_Witness ==
    /\ ret.op = "chat_call" /\ ret.code = 200 /\ ret.thread = 2
    /\ ret.fresh /\ ret.seen = 0
    /\ chat_pc = [t \in Threads |-> "idle"]
    /\ chat_log["c1"] = <<UserMsg("m1"), AssistantMsg("r1"),
                          UserMsg("m2"), AssistantMsg("r1")>>
    /\ conversations["c1"] = <<UserMsg("m2"), AssistantMsg("r1")>>

\* an update is lost under an id that was stored when both calls read it
C27_WitnessStored ==
    /\ ret.op = "chat_call" /\ ret.code = 200
    /\ ~ret.fresh
    /\ Len(chat_log["c1"]) <= 10
    /\ Len(conversations["c1"]) < Len(chat_log["c1"])

====
